---- MODULE Spec2Model ----
(***************************************************************************)
(* nanodoc v2: the document-assembly pipeline.                             *)
(*                                                                         *)
(*   resolve_files / gather_content   (src/src/nanodoc/extractor.py)       *)
(*   parse_path_and_ranges / apply_ranges (src/src/nanodoc/utils.py)       *)
(*   build_document and its helpers   (src/src/nanodoc/v2/document.py)     *)
(*   render_document                  (src/src/nanodoc/v2/renderer.py)     *)
(*                                                                         *)
(* Strings are sequences of one-character strings where the code looks at  *)
(* their characters (range specifiers); a line of a file is a record       *)
(* standing for the text of the line (see Text, Directive).  All files     *)
(* live in one directory; a path is the file name together with the number *)
(* of "./" segments os.path.join has put in front of it.                   *)
(***************************************************************************)
EXTENDS Integers, Sequences, FiniteSets, TLC

\* ------------------------------------------------------------------ bounds

\* Longest content generated for the bundle a.ndoc, in lines.
MaxLines == 2
\* Deepest nesting of process_content calls the interpreter allows before it
\* raises RecursionError (sys.getrecursionlimit() stands behind it).
MaxDepth == 4
\* Longest range specifier generated, in characters, and longest file, in lines.
MaxSpecLen == 4
MaxFileLines == 3

\* ------------------------------------------------------- sequence helpers

RECURSIVE SeqsUpTo(_, _)
SeqsUpTo(S, n) ==
    IF n = 0 THEN {<<>>}
    ELSE LET shorter == SeqsUpTo(S, n - 1)
         IN  shorter \cup {Append(s, x) : s \in {t \in shorter : Len(t) = n - 1}, x \in S}

RECURSIVE Concat(_)
Concat(ss) == IF ss = <<>> THEN <<>> ELSE Head(ss) \o Concat(Tail(ss))

\* lines[a:b] of Python: 0-based, end exclusive, both already within 0..len.
Slice(s, a, b) == IF a < b THEN SubSeq(s, a + 1, b) ELSE <<>>

Min(a, b) == IF a < b THEN a ELSE b
Max(a, b) == IF a > b THEN a ELSE b

\* ------------------------------------------------------------ line ranges

\* A range (start, end) of the code; end None is the EOF sentinel.
Range(s, e) == [start |-> s, end |-> e, eof |-> FALSE]
ToEOF(s) == [start |-> s, end |-> 0, eof |-> TRUE]
default_range == <<ToEOF(1)>>

Digits == {"0", "1", "2", "3", "4", "5", "6", "7", "8", "9"}
DigitVal(c) ==
    CASE c = "0" -> 0 [] c = "1" -> 1 [] c = "2" -> 2 [] c = "3" -> 3
      [] c = "4" -> 4 [] c = "5" -> 5 [] c = "6" -> 6 [] c = "7" -> 7
      [] c = "8" -> 8 [] c = "9" -> 9

\* str.strip() on a sequence of characters (blanks only).
Strip(s) ==
    LET keep == {i \in 1..Len(s) : s[i] # " "}
    IN  IF keep = {} THEN <<>>
        ELSE SubSeq(s, CHOOSE i \in keep : \A j \in keep : i <= j,
                       CHOOSE i \in keep : \A j \in keep : i >= j)

\* Index of the first c in s at or after i, 0 when there is none.
FirstIndex(s, c, i) ==
    LET at == {j \in i..Len(s) : s[j] = c}
    IN  IF at = {} THEN 0 ELSE CHOOSE j \in at : \A k \in at : j <= k

\* str.split(c): the parts between the occurrences of c.
RECURSIVE Split(_, _)
Split(s, c) ==
    LET i == FirstIndex(s, c, 1)
    IN  IF i = 0 THEN <<s>>
        ELSE <<SubSeq(s, 1, i - 1)>> \o Split(SubSeq(s, i + 1, Len(s)), c)

\* str.split(c, 1): at the first c only.
Split1(s, c) ==
    LET i == FirstIndex(s, c, 1)
    IN  IF i = 0 THEN <<s>>
        ELSE <<SubSeq(s, 1, i - 1), SubSeq(s, i + 1, Len(s))>>

RECURSIVE DigitsValue(_, _)
DigitsValue(s, acc) ==
    IF s = <<>> THEN acc ELSE DigitsValue(Tail(s), 10 * acc + DigitVal(Head(s)))

\* int(s): an optional sign, then digits; anything else is a ValueError.
Magnitude(body, negative) ==
    IF body # <<>> /\ \A i \in 1..Len(body) : body[i] \in Digits
    THEN [ok |-> TRUE,
          val |-> IF negative THEN 0 - DigitsValue(body, 0) ELSE DigitsValue(body, 0)]
    ELSE [ok |-> FALSE, val |-> 0]
SignedValue(s) ==
    IF s # <<>> /\ Head(s) \in {"-", "+"} THEN Magnitude(Tail(s), Head(s) = "-")
    ELSE Magnitude(s, FALSE)
ParseInt(s) == SignedValue(Strip(s))

ValueError == [ok |-> FALSE, ranges |-> <<>>]

\* Validation that checks the start only.
ValidateRangeStartOnly(start, end) ==
    IF ~start.ok \/ ~end.ok THEN ValueError
    ELSE IF start.val < 1 THEN ValueError
    ELSE [ok |-> TRUE, ranges |-> <<Range(start.val, end.val)>>]

\* "Validate range": start and end are the numbers parsed.
ValidateRange(start, end) ==
    IF ~start.ok \/ ~end.ok THEN ValueError
    ELSE IF start.val < 1 THEN ValueError
    ELSE IF end.val # start.val /\ end.val < start.val THEN ValueError
    ELSE [ok |-> TRUE, ranges |-> <<Range(start.val, end.val)>>]

\* A part "N-" (end_str empty) or "N-M".
StartEnd(start, end_str) ==
    IF end_str # <<>> THEN ValidateRange(start, ParseInt(end_str))
    ELSE IF ~start.ok THEN ValueError
    ELSE IF start.val < 1 THEN ValueError
    ELSE [ok |-> TRUE, ranges |-> <<ToEOF(start.val)>>]

SplitStartEnd(start_end) == StartEnd(ParseInt(start_end[1]), Strip(start_end[2]))

\* One comma-separated part of a range specifier, already stripped and not
\* empty: the range it denotes, or a ValueError.  A single line "N" has
\* end = start.
ParseRangePart(range_part) ==
    IF FirstIndex(range_part, "-", 1) # 0
    THEN SplitStartEnd(Split1(range_part, "-"))
    ELSE ValidateRange(ParseInt(range_part), ParseInt(range_part))

\* The loop over range_spec.split(","): ranges is the list built so far.
RECURSIVE ParseRangeParts(_, _)
\* The loop body appending to the front of the list.
CollectPartPrepend(one, rest, ranges) ==
    IF ~one.ok THEN ValueError ELSE ParseRangeParts(rest, one.ranges \o ranges)

CollectPart(one, rest, ranges) ==
    IF ~one.ok THEN ValueError ELSE ParseRangeParts(rest, ranges \o one.ranges)
NextPart(range_part, rest, ranges) ==
    IF range_part = <<>> THEN ParseRangeParts(rest, ranges)
    ELSE CollectPart(ParseRangePart(range_part), rest, ranges)
ParseRangeParts(parts, ranges) ==
    IF parts = <<>> THEN [ok |-> TRUE, ranges |-> ranges]
    ELSE NextPart(Strip(Head(parts)), Tail(parts), ranges)

\* "If no valid ranges were parsed, use default range."
OrDefault(got) ==
    IF got.ok /\ got.ranges = <<>> THEN [ok |-> TRUE, ranges |-> default_range]
    ELSE got

\* parse_path_and_ranges without its default range.
ParseRangesNoDefault(range_spec) == ParseRangeParts(Split(range_spec, ","), <<>>)

\* parse_path_and_ranges on what follows the first ":" of the argument
\* (<<>> when the argument has no ":" or nothing after it).
ParseRanges(range_spec) ==
    IF range_spec = <<>> THEN [ok |-> TRUE, ranges |-> default_range]
    ELSE OrDefault(ParseRangeParts(Split(range_spec, ","), <<>>))

\* The lines one range of apply_ranges extracts.
ApplyOneRangeInclusiveEnd(lines, r) ==
    LET start_idx == Max(0, r.start - 1)
        end_idx == Min(IF r.eof THEN Len(lines) ELSE r.end, Len(lines))
    IN  Slice(lines, start_idx, end_idx)

ApplyOneRange(lines, r) ==
    LET start_idx == Max(0, r.start - 1)
    IN  IF ~r.eof /\ r.start = r.end
        THEN IF start_idx < Len(lines) THEN <<lines[start_idx + 1]>> ELSE <<>>
        ELSE LET end_idx == Min(IF r.eof THEN Len(lines) ELSE r.end - 1, Len(lines))
             IN  Slice(lines, start_idx, end_idx)

\* apply_ranges with the ranges sorted by start line first.
ApplyAllSorted(lines, ranges) ==
    Concat([i \in 1..Len(ranges) |->
              ApplyOneRange(lines,
                  ranges[(CHOOSE p \in Permutations(1..Len(ranges)) :
                             \A a, b \in 1..Len(ranges) :
                                 a < b => ranges[p[a]].start <= ranges[p[b]].start)[i]])])

RECURSIVE ApplyAll(_, _)
ApplyAll(lines, ranges) ==
    IF ranges = <<>> THEN <<>>
    ELSE ApplyOneRange(lines, Head(ranges)) \o ApplyAll(lines, Tail(ranges))

\* apply_ranges: the extracted lines, or a ValueError for a start below 1
\* (raised when the loop reaches that range; nothing is returned then).
ApplyRanges(lines, ranges) ==
    IF lines = <<>> THEN [ok |-> TRUE, content |-> <<>>]
    ELSE IF \E i \in 1..Len(ranges) : ranges[i].start < 1
         THEN [ok |-> FALSE, content |-> <<>>]
         ELSE [ok |-> TRUE, content |-> ApplyAll(lines, ranges)]

\* ------------------------------------------------------- files and paths

\* The files the model knows by name.  m.txt never exists on disk.
BundleA == "a.ndoc"
BundleB == "b.ndoc"
PlainX == "x.txt"
Missing == "m.txt"

\* os.path.splitext(path)[1].lower() of the names above.
Ext(name) ==
    CASE name = BundleA -> ".ndoc" [] name = BundleB -> ".ndoc"
      [] name = PlainX -> ".txt" [] name = Missing -> ".txt"

bundle_extensions == {".ndoc", ".bundle"}

\* A path string "/d/" + k times "./" + name.
Path(name, dots) == [name |-> name, dots |-> dots]
\* original_source None.
NoSource == [name |-> "", dots |-> 0]

\* What a directive names: a file name written as "name" (rel), "./name"
\* (dot) or "/d/name" (abs), and the characters after a ":" (the range
\* specifier, <<>> when there is none).
Ref(name, form, spec) == [name |-> name, form |-> form, spec |-> spec]
NoRef == Ref("", "", <<>>)

\* The lines of a file.  Text(t) is a line that matches neither directive
\* pattern; Directive("inline", r) is the line "@inline <r>", Directive(
\* "include", r) the line "@include <r>".  ErrorLine is the text of the
\* error message the builder writes for a missing target.
Text(t) == [kind |-> "text", text |-> t, ref |-> NoRef]
Directive(kind, ref) == [kind |-> kind, text |-> "", ref |-> ref]
ErrorLine(kind, ref) == [kind |-> kind, text |-> "", ref |-> ref]

\* re.match(r"@inline\s+(.+)", line.strip()) and the same for @include.
inline_match(line) == line.kind = "inline"
include_match(line) == line.kind = "include"

FileContent(filepath, ranges, content, is_bundle, original_source) ==
    [filepath |-> filepath, ranges |-> ranges, content |-> content,
     is_bundle |-> is_bundle, original_source |-> original_source]

\* os.path.join(os.path.dirname(bundle path), ref), or ref itself when it
\* is absolute: nothing is normalised, a "./" stays in the path.
ResolvePath(bundle_path, ref) ==
    CASE ref.form = "abs" -> Path(ref.name, 0)
      [] ref.form = "rel" -> Path(ref.name, bundle_path.dots)
      [] ref.form = "dot" -> Path(ref.name, bundle_path.dots + 1)

\* resolve_files on one path with its range specifier.
Resolved(path, parsed) ==
    [ok |-> parsed.ok,
     fc |-> FileContent(path, parsed.ranges, <<>>, Ext(path.name) \in bundle_extensions,
                        NoSource)]
ResolveFile(path, spec) == Resolved(path, ParseRanges(spec))

\* gather_content on one descriptor whose file exists with the given lines.
GatherOne(file_content, lines) ==
    [file_content EXCEPT !.content = ApplyRanges(lines, file_content.ranges).content]

\* ------------------------------------------------------------------ state

VARIABLES
    fs,               \* the directory: file name -> the lines of the file
    file_contents,    \* build_document's argument, as process_v2 prepares it
    argi,             \* build_document's loop: the next descriptor to process
    stack,            \* the process_bundle_directives calls in progress
    processed_files,  \* the set of paths being expanded
    document,         \* document.content_items
    origin,           \* history: for each fragment, where it came from
    exc,              \* the exception propagating, "none" when there is none
    pc,               \* building, built (returned), raised, rendered
    rendered,         \* render_document's rendered_parts
    rspec,            \* range pipeline: the characters after "file:"
    rlines,           \* range pipeline: the lines of the file
    rranges,          \* range pipeline: the parsed ranges
    rout,             \* range pipeline: what apply_ranges returned
    rpc,              \* range pipeline: start, parsed, direct, gathered, error
    file_paths,       \* resolve_files' argument
    extensions,       \* resolve_files' bundle_extensions argument
    content_items,    \* what gather_content returned
    line_number_mode, \* process_v2's line_number_mode, "unset" until rendering
    include_toc,      \* render_document's include_toc argument
    toc,              \* document.toc
    theme,            \* document.theme_name and document.use_rich_formatting
    verified_sources, \* v1 process_all: its argument, file paths with their files
    generate_toc,     \* v1 process_all: its generate_toc argument
    output_buffer,    \* v1 process_all: the string it returns
    toc_line_numbers, \* v1 process_all: the line number computed for each file
    show_header,      \* v1 process_all: its show_header argument
    v1pc,             \* v1 process_all: idle, ready, done
    fmt_content,      \* format_with_line_numbers: its content argument
    fmt_start,        \* format_with_line_numbers: its start_number argument
    fmt_out,          \* format_with_line_numbers: what it returned
    fmt_pc,           \* format_with_line_numbers: idle, call, returned
    path_args,        \* resolve_paths: its argument
    resolved_paths,   \* resolve_paths: what it returned
    path_pc           \* resolve_paths: idle, call, returned, raised

builder_vars ==
    <<fs, file_contents, argi, stack, processed_files, document, origin, exc,
      pc, rendered>>
range_vars == <<rspec, rlines, rranges, rout, rpc>>
stage_vars == <<file_paths, extensions, content_items, line_number_mode>>
toc_vars == <<include_toc, toc, theme>>
v1_vars ==
    <<verified_sources, generate_toc, show_header, output_buffer, toc_line_numbers, v1pc>>
fmt_vars == <<fmt_content, fmt_start, fmt_out, fmt_pc>>
path_vars == <<path_args, resolved_paths, path_pc>>
aux_vars == <<v1_vars, fmt_vars, path_vars>>
vars == <<builder_vars, range_vars, stage_vars, toc_vars, aux_vars>>

\* ------------------------------------------------------------ the inputs

\* The directives generated for a.ndoc.
Refs ==
    {Ref(BundleA, "rel", <<>>), Ref(BundleA, "dot", <<>>), Ref(BundleB, "rel", <<>>),
     Ref(PlainX, "rel", <<>>), Ref(PlainX, "abs", <<>>), Ref(Missing, "rel", <<>>)}
LineAlphabet ==
    {Text("t")} \cup {Directive(k, r) : k \in {"inline", "include"}, r \in Refs}
ContentsA == SeqsUpTo(LineAlphabet, MaxLines) \ {<<>>}

\* b.ndoc: the bundles of the repository's tests (tests/test_document.py,
\* tests/v2/test_milestones.py), with the names of this model.
ContentsB ==
    { <<Text("Header"), Directive("inline", Ref(Missing, "rel", <<>>)), Text("Footer")>>,
      <<Text("Nested header"), Directive("inline", Ref(PlainX, "rel", <<>>)),
        Text("Nested footer")>>,
      <<Text("Circular 2"), Directive("include", Ref(BundleA, "rel", <<>>))>>,
      <<Text("Header"), Directive("include", Ref(BundleB, "rel", <<>>)), Text("Footer")>>,
      <<Directive("include", Ref(PlainX, "rel", <<"1", "-", "2">>)),
        Directive("inline", Ref(PlainX, "dot", <<"2">>)),
        Directive("include", Ref(Missing, "rel", <<"2", "-">>)),
        Directive("include", Ref(PlainX, "rel", <<"0">>)), Text("unreached")>> }

\* x.txt: a plain file, one of whose lines reads like a directive.
ContentX == <<Text("x1"), Directive("include", Ref(BundleA, "rel", <<>>)), Text("x3")>>

\* The command lines: the file names given, in order.
ArgLists ==
    { <<BundleA>>, <<BundleB>>, <<PlainX, BundleA>>, <<BundleA, BundleA>>,
      <<BundleB, PlainX>> }

\* process_v2 up to build_document: resolve_paths gives absolute paths,
\* resolve_files the descriptors, gather_content their content.
TopLevel(files, names) ==
    [i \in 1..Len(names) |->
        GatherOne(ResolveFile(Path(names[i], 0), <<>>).fc, files[names[i]])]

\* ------------------------------------------------------- build_document

\* A call of process_bundle_directives in progress: the bundle's path, its
\* lines, the index of the next line, current_content.  run, pos and dirs
\* are history: the line current_content began at, the position of the
\* bundle in the scan (argument index, then line indexes), and the
\* directives the bundle was reached through.
Frame(filepath, lines, pos, dirs) ==
    [filepath |-> filepath, lines |-> lines, i |-> 1, cur |-> <<>>, run |-> 0,
     pos |-> pos, dirs |-> dirs]

Top == stack[Len(stack)]

\* History of a fragment: its position in the scan, what produced it (top,
\* include, inline, literal, error) and the directives it was reached through,
\* outermost first, each with the bundle that holds it.
Origin(pos, via, dirs) == [pos |-> pos, via |-> via, dirs |-> dirs]

\* The fragment for accumulated literal lines ("\n".join(...) + "\n").
LiteralFragment(f) == FileContent(f.filepath, <<>>, f.cur, FALSE, f.filepath)

\* "If we have accumulated content, add it first."
FlushDoc(f, doc) == IF f.cur # <<>> THEN Append(doc, LiteralFragment(f)) ELSE doc
FlushOrg(f, org) ==
    IF f.cur # <<>> THEN Append(org, Origin(Append(f.pos, f.run), "literal", f.dirs))
    ELSE org

\* process_content without its is_bundle test: every file is scanned.
ProcessContentScansAll(file_content, doc, org, stk, pos, via, dirs) ==
    IF file_content.filepath \in processed_files
    THEN /\ exc' = "CircularDependencyError"
         /\ document' = doc /\ origin' = org /\ stack' = stk
         /\ UNCHANGED processed_files
    ELSE IF Len(stk) >= MaxDepth
    THEN /\ exc' = "RecursionError"
         /\ document' = doc /\ origin' = org /\ stack' = stk
         /\ UNCHANGED processed_files
    ELSE /\ processed_files' = processed_files \cup {file_content.filepath}
         /\ stack' = Append(stk, Frame(file_content.filepath, file_content.content,
                                       pos, dirs))
         /\ document' = doc /\ origin' = org
         /\ UNCHANGED exc

\* process_content appending whatever it is given, bundles too.
ProcessContentAppendsAll(file_content, doc, org, stk, pos, via, dirs) ==
    /\ document' = Append(doc, file_content)
    /\ origin' = Append(org, Origin(pos, via, dirs))
    /\ stack' = stk
    /\ UNCHANGED <<processed_files, exc>>

\* process_content(file_content, document, processed_files, parent_bundle),
\* called with the document doc (history org) and the call stack stk.
ProcessContent(file_content, doc, org, stk, pos, via, dirs) ==
    IF file_content.filepath \in processed_files
    THEN /\ exc' = "CircularDependencyError"
         /\ document' = doc /\ origin' = org /\ stack' = stk
         /\ UNCHANGED processed_files
    ELSE IF ~file_content.is_bundle
    THEN /\ document' = Append(doc, file_content)
         /\ origin' = Append(org, Origin(pos, via, dirs))
         /\ stack' = stk
         /\ UNCHANGED <<processed_files, exc>>
    ELSE IF Len(stk) >= MaxDepth
    THEN /\ exc' = "RecursionError"
         /\ document' = doc /\ origin' = org /\ stack' = stk
         /\ UNCHANGED processed_files
    ELSE /\ processed_files' = processed_files \cup {file_content.filepath}
         /\ stack' = Append(stk, Frame(file_content.filepath, file_content.content,
                                       pos, dirs))
         /\ document' = doc /\ origin' = org
         /\ UNCHANGED exc

\* build_document's loop: the next top-level descriptor.
BuildNext ==
    /\ pc = "building" /\ exc = "none" /\ stack = <<>>
    /\ argi <= Len(file_contents)
    /\ ProcessContent(file_contents[argi], document, origin, stack, <<argi>>, "top", <<>>)
    /\ argi' = argi + 1
    /\ UNCHANGED <<fs, file_contents, pc, rendered, range_vars, stage_vars,
                   toc_vars, aux_vars>>

\* "Regular line, add to current content."
StepLiteral ==
    /\ pc = "building" /\ exc = "none" /\ stack # <<>>
    /\ Top.i <= Len(Top.lines)
    /\ ~inline_match(Top.lines[Top.i]) /\ ~include_match(Top.lines[Top.i])
    /\ stack' = [stack EXCEPT ![Len(stack)] =
                    [Top EXCEPT !.cur = Append(Top.cur, Top.lines[Top.i]),
                                !.run = IF Top.cur = <<>> THEN Top.i ELSE Top.run,
                                !.i = Top.i + 1]]
    /\ UNCHANGED <<fs, file_contents, argi, processed_files, document, origin, exc,
                   pc, rendered, range_vars, stage_vars,
                   toc_vars, aux_vars>>

\* The error fragment of process_inline_directive / process_include_directive.
ErrorFragment(kind, ref, parent_bundle) ==
    FileContent(parent_bundle, <<>>,
                <<ErrorLine(IF kind = "inline" THEN "error_inline" ELSE "error_include",
                            ref)>>,
                FALSE, parent_bundle)

\* Marking every loaded descriptor, included ones too.
MarkSourceAlways(kind, file_content, parent_bundle) ==
    [file_content EXCEPT !.original_source = parent_bundle]

\* "Mark inlined content as being from the original source."
MarkSource(kind, file_content, parent_bundle) ==
    IF kind = "inline" THEN [file_content EXCEPT !.original_source = parent_bundle]
    ELSE file_content

\* The directive handlers without their "except FileNotFoundError".
RunDirectiveNoCatch(kind, ref, parent_bundle, resolved, doc, org, stk, pos, dirs) ==
    IF ~resolved.ok
    THEN /\ exc' = "ValueError"
         /\ document' = doc /\ origin' = org /\ stack' = stk
         /\ UNCHANGED processed_files
    ELSE IF resolved.fc.filepath.name \notin DOMAIN fs
    THEN /\ exc' = "FileNotFoundError"
         /\ document' = doc /\ origin' = org /\ stack' = stk
         /\ UNCHANGED processed_files
    ELSE ProcessContent(
             MarkSource(kind, GatherOne(resolved.fc, fs[resolved.fc.filepath.name]),
                        parent_bundle),
             doc, org, stk, pos, kind, dirs)

\* process_inline_directive / process_include_directive for the directive
\* at pos naming ref in parent_bundle, once the path is resolved.
RunDirective(kind, ref, parent_bundle, resolved, doc, org, stk, pos, dirs) ==
    IF ~resolved.ok
    THEN \* parse_path_and_ranges raised: nothing catches a ValueError
         /\ exc' = "ValueError"
         /\ document' = doc /\ origin' = org /\ stack' = stk
         /\ UNCHANGED processed_files
    ELSE IF resolved.fc.filepath.name \notin DOMAIN fs
    THEN \* gather_content raised FileNotFoundError
         /\ document' = Append(doc, ErrorFragment(kind, ref, parent_bundle))
         /\ origin' = Append(org, Origin(pos, "error", dirs))
         /\ stack' = stk
         /\ UNCHANGED <<processed_files, exc>>
    ELSE ProcessContent(
             MarkSource(kind, GatherOne(resolved.fc, fs[resolved.fc.filepath.name]),
                        parent_bundle),
             doc, org, stk, pos, kind, dirs)

\* A directive step that leaves the accumulated content where it is, to be
\* flushed with the lines after the directive.
StepDirectiveLateFlush(kind) ==
    /\ pc = "building" /\ exc = "none" /\ stack # <<>>
    /\ Top.i <= Len(Top.lines)
    /\ Top.lines[Top.i].kind = kind
    /\ RunDirective(kind, Top.lines[Top.i].ref, Top.filepath,
                    ResolveFile(ResolvePath(Top.filepath, Top.lines[Top.i].ref),
                                Top.lines[Top.i].ref.spec),
                    document, origin,
                    [stack EXCEPT ![Len(stack)] = [Top EXCEPT !.i = Top.i + 1]],
                    Append(Top.pos, Top.i),
                    Append(Top.dirs, [kind |-> kind, bundle |-> Top.filepath]))
    /\ UNCHANGED <<fs, file_contents, argi, pc, rendered, range_vars, stage_vars,
                   toc_vars, aux_vars>>

\* The flush that does not reset current_content afterwards.
StepDirectiveKeepsContent(kind) ==
    /\ pc = "building" /\ exc = "none" /\ stack # <<>>
    /\ Top.i <= Len(Top.lines)
    /\ Top.lines[Top.i].kind = kind
    /\ RunDirective(kind, Top.lines[Top.i].ref, Top.filepath,
                    ResolveFile(ResolvePath(Top.filepath, Top.lines[Top.i].ref),
                                Top.lines[Top.i].ref.spec),
                    FlushDoc(Top, document), FlushOrg(Top, origin),
                    [stack EXCEPT ![Len(stack)] = [Top EXCEPT !.i = Top.i + 1]],
                    Append(Top.pos, Top.i),
                    Append(Top.dirs, [kind |-> kind, bundle |-> Top.filepath]))
    /\ UNCHANGED <<fs, file_contents, argi, pc, rendered, range_vars, stage_vars,
                   toc_vars, aux_vars>>

\* A directive line of the bundle on top of the stack: the accumulated
\* content is flushed, then process_inline_directive (kind "inline") or
\* process_include_directive (kind "include") runs up to the point where it
\* returns, raises or enters the target bundle.
StepDirective(kind) ==
    /\ pc = "building" /\ exc = "none" /\ stack # <<>>
    /\ Top.i <= Len(Top.lines)
    /\ Top.lines[Top.i].kind = kind
    /\ RunDirective(kind, Top.lines[Top.i].ref, Top.filepath,
                    ResolveFile(ResolvePath(Top.filepath, Top.lines[Top.i].ref),
                                Top.lines[Top.i].ref.spec),
                    FlushDoc(Top, document), FlushOrg(Top, origin),
                    [stack EXCEPT ![Len(stack)] = [Top EXCEPT !.cur = <<>>, !.i = Top.i + 1]],
                    Append(Top.pos, Top.i),
                    Append(Top.dirs, [kind |-> kind, bundle |-> Top.filepath]))
    /\ UNCHANGED <<fs, file_contents, argi, pc, rendered, range_vars, stage_vars,
                   toc_vars, aux_vars>>

StepInline == StepDirective("inline")
StepInclude == StepDirective("include")

\* Return without the finally clause's removal.
ReturnKeepsPath ==
    /\ pc = "building" /\ exc = "none" /\ stack # <<>>
    /\ Top.i > Len(Top.lines)
    /\ document' = FlushDoc(Top, document)
    /\ origin' = FlushOrg(Top, origin)
    /\ stack' = SubSeq(stack, 1, Len(stack) - 1)
    /\ UNCHANGED <<fs, file_contents, argi, processed_files, exc, pc, rendered,
                   range_vars, stage_vars,
                   toc_vars, aux_vars>>

\* process_bundle_directives has read its last line: "add any remaining
\* content", return to process_content, whose finally removes the path.
Return ==
    /\ pc = "building" /\ exc = "none" /\ stack # <<>>
    /\ Top.i > Len(Top.lines)
    /\ document' = FlushDoc(Top, document)
    /\ origin' = FlushOrg(Top, origin)
    /\ processed_files' = processed_files \ {Top.filepath}
    /\ stack' = SubSeq(stack, 1, Len(stack) - 1)
    /\ UNCHANGED <<fs, file_contents, argi, exc, pc, rendered, range_vars, stage_vars,
                   toc_vars, aux_vars>>

\* An exception leaves a process_content call that has no finally.
UnwindKeepsPath ==
    /\ pc = "building" /\ exc # "none" /\ stack # <<>>
    /\ stack' = SubSeq(stack, 1, Len(stack) - 1)
    /\ UNCHANGED <<fs, file_contents, argi, processed_files, document, origin, exc, pc,
                   rendered, range_vars, stage_vars, toc_vars, aux_vars>>

\* An exception leaves a process_content call: its finally removes the path.
\* The directive handlers catch FileNotFoundError only.
Unwind ==
    /\ pc = "building" /\ exc # "none" /\ stack # <<>>
    /\ processed_files' = processed_files \ {Top.filepath}
    /\ stack' = SubSeq(stack, 1, Len(stack) - 1)
    /\ UNCHANGED <<fs, file_contents, argi, document, origin, exc, pc, rendered,
                   range_vars, stage_vars,
                   toc_vars, aux_vars>>

\* The exception leaves build_document: no Document is returned.
Raise ==
    /\ pc = "building" /\ exc # "none" /\ stack = <<>>
    /\ pc' = "raised"
    /\ UNCHANGED <<fs, file_contents, argi, stack, processed_files, document, origin,
                   exc, rendered, range_vars, stage_vars,
                   toc_vars, aux_vars>>

\* "return document"
Finish ==
    /\ pc = "building" /\ exc = "none" /\ stack = <<>>
    /\ argi > Len(file_contents)
    /\ pc' = "built"
    /\ UNCHANGED <<fs, file_contents, argi, stack, processed_files, document, origin,
                   exc, rendered, range_vars, stage_vars,
                   toc_vars, aux_vars>>

\* ------------------------------------------------------ render_document

\* One element of rendered_parts: the separator "\n" (sep), a file header
\* "# <basename>\n\n" (header), the content of fragment item (content) or
\* the newline added after content that does not end with one (newline),
\* the table of contents with its lines as text (toc).
Part(kind, item, text) == [kind |-> kind, item |-> item, text |-> text]

\* The last line of a file may come without its newline.
Partial(t) == [kind |-> "partial", text |-> t, ref |-> NoRef]

\* format_with_line_numbers(content): content.split("\n") gives the lines
\* and, after a final newline (or for empty content), one more empty piece;
\* piece i (from 0) gets the number start_number + i, and the pieces are
\* joined with "\n", so the last piece has no newline.
NumberedLine(num, line) == [num |-> num, line |-> line]
FormatWithLineNumbersFrom(content, start_number) ==
    IF content # <<>> /\ content[Len(content)].kind = "partial"
    THEN [i \in 1..Len(content) |-> NumberedLine(start_number + i - 1, content[i])]
    ELSE [i \in 1..(Len(content) + 1) |->
            NumberedLine(start_number + i - 1,
                         IF i <= Len(content) THEN content[i] ELSE Partial(""))]
\* "start_number: int = 1"
FormatWithLineNumbers(content) == FormatWithLineNumbersFrom(content, 1)

\* Whether a line of a part, numbered or not, ends with its newline.
LineComplete(l) ==
    IF "num" \in DOMAIN l THEN l.line.kind # "partial" ELSE l.kind # "partial"

\* part.endswith("\n\n") and part.endswith("\n"); content is its lines, each
\* ending with a newline.
\* The separator test satisfied by a single trailing newline.
EndsWithBlankLineOrNewline(part) ==
    \/ part.kind \in {"header", "sep", "newline", "toc"}
    \/ part.text # <<>> /\ LineComplete(part.text[Len(part.text)])

EndsWithBlankLine(part) ==
    \/ part.kind \in {"header", "toc"}
    \/ /\ part.kind = "content"
       /\ Len(part.text) >= 2
       /\ part.text[Len(part.text)] = Text("")

\* The trailing-newline test that never asks for a newline.
EndsWithNewlineAlways(part) == TRUE

EndsWithNewline(part) ==
    \/ part.kind \in {"header", "sep", "newline", "toc"}
    \/ part.text # <<>> /\ LineComplete(part.text[Len(part.text)])

\* "original_source or filepath"
EffectiveSource(item) ==
    IF item.original_source # NoSource THEN item.original_source ELSE item.filepath

\* A header whenever the effective source changes, original_source or not.
NeedsHeaderByEffectiveSource(item, prev) ==
    EffectiveSource(item) # prev

\* "Check if not inlined and different from previous": prev is the previous
\* fragment's effective source, NoSource (None) before the first fragment.
NeedsHeader(item, prev) ==
    /\ item.original_source = NoSource
    /\ item.filepath # prev

\* The characters of a line's text.  The texts with a "#" are spelled out;
\* every other text of the model begins with a letter or a digit and has
\* no "#", and stands here as one character.
Chars(text) ==
    CASE text = "" -> <<>>
      [] text = "# A" -> <<"#", " ", "A">>
      [] text = "## B" -> <<"#", "#", " ", "B">>
      [] text = "### C" -> <<"#", "#", "#", " ", "C">>
      [] text = "#D" -> <<"#", "D">>
      [] text = "#  E " -> <<"#", " ", " ", "E", " ">>
      [] text = "# " -> <<"#", " ">>
      [] OTHER -> <<text>>

\* The text of a line of content as content.split("\n") gives it: a
\* directive line and an error message begin with "@" and "ERROR".
LineChars(line) == IF line.kind \in {"text", "partial"} THEN Chars(line.text) ELSE <<"@">>

\* heading_pattern.match(line) for r"^(#+)\s+(.+)$": group(1) is the run of
\* "#" the line begins with, then comes at least one blank, then at least
\* one more character; group(2), stripped, is the heading text.
Hashes(chars) ==
    Cardinality({n \in 1..Len(chars) : \A m \in 1..n : chars[m] = "#"})
Blanks(chars, from) ==
    Cardinality({n \in from..Len(chars) : \A m \in from..n : chars[m] = " "})
HeadingMatches(chars) ==
    /\ Hashes(chars) >= 1
    /\ Blanks(chars, Hashes(chars) + 1) >= 1
    /\ Len(chars) > Hashes(chars) + 1
HeadingLevel(chars) == Hashes(chars)
HeadingText(chars) ==
    Strip(SubSeq(chars, Hashes(chars) + Blanks(chars, Hashes(chars) + 1) + 1, Len(chars)))

\* The headings of every level.
FileHeadingsAnyLevel(content) ==
    LET at == {i \in 1..Len(content) : HeadingMatches(LineChars(content[i]))}
        nth(k) == CHOOSE i \in at : Cardinality({j \in at : j < i}) = k - 1
    IN  [k \in 1..Cardinality(at) |->
            [heading |-> HeadingText(LineChars(content[nth(k)])), line |-> nth(k)]]

\* file_headings of one fragment: (heading_text, i + 1) for the lines that
\* match with at most two "#".
FileHeadings(content) ==
    LET at == {i \in 1..Len(content) :
                  /\ HeadingMatches(LineChars(content[i]))
                  /\ HeadingLevel(LineChars(content[i])) <= 2}
        nth(k) == CHOOSE i \in at : Cardinality({j \in at : j < i}) = k - 1
    IN  [k \in 1..Cardinality(at) |->
            [heading |-> HeadingText(LineChars(content[nth(k)])), line |-> nth(k)]]

\* headings_by_file: a dict in insertion order, here the sequence of its
\* (file_path, headings) entries.
RECURSIVE ExtractHeadingsFrom(_, _, _)
ExtractHeadingsFrom(items, i, headings_by_file) ==
    IF i > Len(items) THEN headings_by_file
    ELSE LET file_path == EffectiveSource(items[i])
             file_headings == FileHeadings(items[i].content)
             at == {g \in 1..Len(headings_by_file) :
                       headings_by_file[g].file_path = file_path}
         IN  ExtractHeadingsFrom(items, i + 1,
                 IF file_headings = <<>> THEN headings_by_file
                 ELSE IF at # {}
                 THEN [g \in 1..Len(headings_by_file) |->
                         IF g \in at
                         THEN [headings_by_file[g] EXCEPT
                                  !.headings = @ \o file_headings]
                         ELSE headings_by_file[g]]
                 ELSE Append(headings_by_file,
                             [file_path |-> file_path, headings |-> file_headings]))

ExtractHeadings(items) == ExtractHeadingsFrom(items, 1, <<>>)

\* generate_toc: "" without headings; else the title line and a blank line,
\* per file "- <basename>" and per heading "  - <heading>", a blank line.
TocLine(kind, file_path, heading) ==
    [kind |-> kind, file_path |-> file_path, heading |-> heading]
GenerateToc(headings) ==
    IF headings = <<>> THEN <<>>
    ELSE <<TocLine("title", NoSource, <<>>), TocLine("blank", NoSource, <<>>)>>
         \o Concat([g \in 1..Len(headings) |->
                      <<TocLine("file", headings[g].file_path, <<>>)>>
                      \o [h \in 1..Len(headings[g].headings) |->
                             TocLine("heading", headings[g].file_path,
                                     headings[g].headings[h].heading)]])
         \o <<TocLine("blank", NoSource, <<>>)>>

\* The loop of render_document from fragment i on.
RECURSIVE RenderFrom(_, _, _, _, _)
RenderFrom(items, i, rendered_parts, prev_original_source, include_line_numbers) ==
    IF i > Len(items) THEN rendered_parts
    ELSE LET item == items[i]
             header == NeedsHeader(item, prev_original_source)
             sep == /\ header
                    /\ rendered_parts # <<>>
                    /\ ~EndsWithBlankLine(rendered_parts[Len(rendered_parts)])
             p1 == IF sep THEN Append(rendered_parts, Part("sep", i, <<>>))
                   ELSE rendered_parts
             p2 == IF header THEN Append(p1, Part("header", i, <<>>)) ELSE p1
             p3 == Append(p2, Part("content", i,
                                   IF include_line_numbers
                                   THEN FormatWithLineNumbers(item.content)
                                   ELSE item.content))
             p4 == IF ~EndsWithNewline(p3[Len(p3)])
                   THEN Append(p3, Part("newline", i, <<>>)) ELSE p3
         IN  RenderFrom(items, i + 1, p4, EffectiveSource(item), include_line_numbers)

\* render_document: the TOC first, "if toc", then the fragments.
RenderDocument(items, with_toc, include_line_numbers) ==
    RenderFrom(items, 1,
               IF with_toc /\ GenerateToc(ExtractHeadings(items)) # <<>>
               THEN <<Part("toc", 0, GenerateToc(ExtractHeadings(items)))>>
               ELSE <<>>,
               NoSource, include_line_numbers)

\* "document.toc = headings", reached only when there are headings.
\* generate_toc run, and its result stored, whether a TOC was asked for or not.
StoredTocUnasked(items, with_toc, old) ==
    IF ExtractHeadings(items) # <<>>
    THEN [set |-> TRUE, groups |-> ExtractHeadings(items)]
    ELSE old

StoredToc(items, with_toc, old) ==
    IF with_toc /\ ExtractHeadings(items) # <<>>
    THEN [set |-> TRUE, groups |-> ExtractHeadings(items)]
    ELSE old

\* process_v2, stage 5: apply_theme_to_document with "use_rich_formatting =
\* theme is not None" stores the theme on the Document.
Themes == {"None", "neutral"}
ApplyThemeToDocument ==
    /\ pc = "built"
    /\ \E theme_name \in Themes :
          theme' = IF theme_name # "None"
                   THEN [theme_name |-> theme_name, use_rich_formatting |-> TRUE]
                   ELSE theme
    /\ pc' = "themed"
    /\ UNCHANGED <<fs, file_contents, argi, stack, processed_files, document, origin,
                   exc, rendered, range_vars, stage_vars, include_toc, toc, aux_vars>>

\* process_v2, stage 6: the Document build_document returned is rendered,
\* "include_line_numbers = line_number_mode is not None" and "include_toc =
\* generate_toc"; rendered is the plain content before any theming.
LineNumberModes == {"None", "file", "all"}
Render ==
    /\ pc \in {"built", "themed"}
    /\ \E mode \in LineNumberModes, with_toc \in BOOLEAN :
          /\ line_number_mode' = mode
          /\ include_toc' = with_toc
          /\ rendered' = RenderDocument(document, with_toc, mode # "None")
          /\ toc' = StoredToc(document, with_toc, toc)
    /\ pc' = "rendered"
    /\ UNCHANGED <<fs, file_contents, argi, stack, processed_files, document, origin,
                   exc, range_vars, file_paths, extensions, content_items, theme,
                   aux_vars>>

\* ------------------------------------------------------ the builder's runs

\* document.toc is None and no theme is set until a stage sets them.
NoToc == [set |-> FALSE, groups |-> <<>>]
NoTheme == [theme_name |-> "None", use_rich_formatting |-> FALSE]
TocIdle == include_toc = FALSE /\ toc = NoToc /\ theme = NoTheme

V1Idle ==
    /\ verified_sources = <<>> /\ generate_toc = FALSE /\ show_header = TRUE
    /\ output_buffer = <<>>
    /\ toc_line_numbers = <<>> /\ v1pc = "idle"
FmtIdle == fmt_content = <<>> /\ fmt_start = 1 /\ fmt_out = <<>> /\ fmt_pc = "idle"
PathIdle == path_args = <<>> /\ resolved_paths = <<>> /\ path_pc = "idle"
AuxIdle == V1Idle /\ FmtIdle /\ PathIdle

RangeIdle ==
    /\ rspec = <<>> /\ rlines = <<>> /\ rranges = <<>> /\ rout = <<>> /\ rpc = "idle"

\* The bundle_extensions argument: None, or a list.
NoExtensions == [given |-> FALSE, list |-> {}]
Extensions(list) == [given |-> TRUE, list |-> list]

StageIdle ==
    /\ file_paths = <<>> /\ extensions = NoExtensions /\ content_items = <<>>
    /\ line_number_mode = "unset"

Init ==
    /\ fs \in {[n \in {BundleA, BundleB, PlainX} |->
                  CASE n = BundleA -> a [] n = BundleB -> b [] n = PlainX -> ContentX]
               : a \in ContentsA, b \in ContentsB}
    /\ file_contents \in {TopLevel(fs, names) : names \in ArgLists}
    /\ argi = 1
    /\ stack = <<>>
    /\ processed_files = {}
    /\ document = <<>>
    /\ origin = <<>>
    /\ exc = "none"
    /\ pc = "building"
    /\ rendered = <<>>
    /\ RangeIdle
    /\ TocIdle /\ AuxIdle
    /\ StageIdle

Next ==
    \/ BuildNext
    \/ StepLiteral
    \/ StepInline
    \/ StepInclude
    \/ Return
    \/ Unwind
    \/ Raise
    \/ Finish
    \/ Render

Spec == Init /\ [][Next]_vars

\* ------------------------------------------------- the range pipeline

\* The characters of the generated range specifiers: the line numbers of
\* the generated files, zero, and the punctuation the parser knows.
DigitChar(n) ==
    CASE n = 0 -> "0" [] n = 1 -> "1" [] n = 2 -> "2" [] n = 3 -> "3" [] n = 4 -> "4"
      [] n = 5 -> "5" [] n = 6 -> "6" [] n = 7 -> "7" [] n = 8 -> "8" [] n = 9 -> "9"
SpecAlphabet == {DigitChar(n) : n \in 0..MaxFileLines} \cup {"-", ",", " "}
RangeSpecs == SeqsUpTo(SpecAlphabet, MaxSpecLen)

\* The file of n lines: line k is Text(DigitChar(k)), so every line differs.
FileOf(n) == [k \in 1..n |-> Text(DigitChar(k))]
Files == {FileOf(n) : n \in 0..MaxFileLines}

\* Range lists handed to apply_ranges directly (as the tests do): none, one
\* or two ranges, starts and ends from 0 to one past the longest file.
DirectRange ==
    {Range(s, e) : s \in 0..(MaxFileLines + 1), e \in 0..(MaxFileLines + 1)}
        \cup {ToEOF(s) : s \in 0..(MaxFileLines + 1)}
DirectRanges ==
    {<<>>} \cup {<<r>> : r \in DirectRange} \cup {<<r, q>> : r \in DirectRange, q \in DirectRange}

BuilderIdle ==
    /\ fs = <<>> /\ file_contents = <<>> /\ argi = 1 /\ stack = <<>>
    /\ processed_files = {} /\ document = <<>> /\ origin = <<>> /\ exc = "none"
    /\ pc = "idle" /\ rendered = <<>>
    /\ StageIdle

\* Either the argument "file:<rspec>" is about to be parsed, or apply_ranges
\* is about to be called directly with rranges.
RInit ==
    /\ BuilderIdle
    /\ TocIdle /\ AuxIdle
    /\ rlines = <<>> /\ rout = <<>>
    /\ \/ rpc = "start" /\ rspec \in RangeSpecs /\ rranges = <<>>
       \/ rpc = "direct" /\ rspec = <<>> /\ rranges \in DirectRanges

\* resolve_files: parse_path_and_ranges("file:" + rspec).
Parse ==
    /\ rpc = "start"
    /\ IF ParseRanges(rspec).ok
       THEN rranges' = ParseRanges(rspec).ranges /\ rpc' = "parsed"
       ELSE rranges' = <<>> /\ rpc' = "error"
    /\ UNCHANGED <<builder_vars, stage_vars, toc_vars, aux_vars, rspec, rlines, rout>>

\* gather_content: the file is read (readlines) and apply_ranges extracts.
Gather ==
    /\ rpc = "parsed"
    /\ \E lines \in Files :
          /\ rlines' = lines
          /\ rout' = ApplyRanges(lines, rranges).content
    /\ rpc' = "gathered"
    /\ UNCHANGED <<builder_vars, stage_vars, toc_vars, aux_vars, rspec, rranges>>

\* apply_ranges(lines, rranges) called directly.
ApplyDirect ==
    /\ rpc = "direct"
    /\ \E lines \in Files :
          /\ rlines' = lines
          /\ rout' = ApplyRanges(lines, rranges).content
          /\ rpc' = IF ApplyRanges(lines, rranges).ok THEN "applied" ELSE "error"
    /\ UNCHANGED <<builder_vars, stage_vars, toc_vars, aux_vars, rspec, rranges>>

RNext == Parse \/ Gather \/ ApplyDirect

RangeSpec == RInit /\ [][RNext]_vars

\* ------------------------------------------------------- resolve_files

\* A file name is a stem and its dot-suffixes: "file" ".bundle" ".txt"; an
\* empty stem is a name that begins with a dot.
MaxSuffixes == 2
Suffixes == {".ndoc", ".NDOC", ".bundle", ".BUNDLE", ".txt", ".custom", ".Custom"}
FileNames ==
    {[stem |-> st, suffixes |-> su] :
        st \in {"", "file"}, su \in SeqsUpTo(Suffixes, MaxSuffixes)}
        \ {[stem |-> "", suffixes |-> <<>>]}

\* str.lower() on a suffix.
Lower(t) ==
    CASE t = ".NDOC" -> ".ndoc" [] t = ".BUNDLE" -> ".bundle" [] t = ".Custom" -> ".custom"
      [] OTHER -> t

\* os.path.splitext(path)[1]: the last suffix, none for a name that is a
\* leading dot and one suffix only.
SplitExt(name) ==
    IF name.suffixes = <<>> \/ (name.stem = "" /\ Len(name.suffixes) = 1) THEN ""
    ELSE name.suffixes[Len(name.suffixes)]

\* ".bundle." in basename.lower()
HasBundleInfix(name) ==
    \E i \in 1..(Len(name.suffixes) - 1) : Lower(name.suffixes[i]) = ".bundle"

ExtensionArgs ==
    {NoExtensions} \cup {Extensions(l) : l \in SUBSET {".ndoc", ".custom", ".Custom"}}

IsBundle(name, given_extensions) ==
    \/ Lower(SplitExt(name)) \in
          (IF given_extensions.given THEN given_extensions.list ELSE bundle_extensions)
    \/ HasBundleInfix(name)

\* The arguments: a path, alone or followed by ":" and a range specifier.
Argument(name, spec) == [name |-> name, spec |-> spec]
Arguments == {Argument(n, sp) : n \in FileNames, sp \in {<<>>, <<"1", "-", "2">>, <<"0">>}}

ResolveInit ==
    /\ file_paths \in {<<a>> : a \in Arguments}
    /\ extensions \in ExtensionArgs
    /\ pc = "resolving"
    /\ fs = <<>> /\ file_contents = <<>> /\ argi = 1 /\ stack = <<>>
    /\ processed_files = {} /\ document = <<>> /\ origin = <<>> /\ exc = "none"
    /\ rendered = <<>>
    /\ content_items = <<>> /\ line_number_mode = "unset"
    /\ RangeIdle
    /\ TocIdle /\ AuxIdle

\* resolve_files(file_paths, bundle_extensions)
ResolveFiles ==
    /\ pc = "resolving"
    /\ IF \A i \in 1..Len(file_paths) : ParseRanges(file_paths[i].spec).ok
       THEN /\ file_contents' =
                  [i \in 1..Len(file_paths) |->
                      FileContent(file_paths[i].name,
                                  ParseRanges(file_paths[i].spec).ranges, <<>>,
                                  IsBundle(file_paths[i].name, extensions), NoSource)]
            /\ pc' = "resolved"
            /\ UNCHANGED exc
       ELSE /\ exc' = "ValueError"
            /\ pc' = "raised"
            /\ UNCHANGED file_contents
    /\ UNCHANGED <<fs, argi, stack, processed_files, document, origin, rendered,
                   range_vars, stage_vars,
                   toc_vars, aux_vars>>

ResolveNext == ResolveFiles

ResolveSpec == ResolveInit /\ [][ResolveNext]_vars

\* ------------------------------------------------------ gather_content

\* What open() finds at a path: a file with its lines, nothing, or a file
\* that may not be read.
FilePresent(lines) == [exists |-> TRUE, readable |-> TRUE, lines |-> lines]
FileAbsent == [exists |-> FALSE, readable |-> FALSE, lines |-> <<>>]
FileUnreadable == [exists |-> TRUE, readable |-> FALSE, lines |-> <<>>]
FileStates == {FilePresent(FileOf(2)), FilePresent(<<>>), FileAbsent, FileUnreadable}

\* The exception of open(filepath), "none" when the file opens:
\* FileNotFoundError is caught and raised again, any other OSError passes.
OpenError(file) ==
    IF ~file.exists THEN "FileNotFoundError"
    ELSE IF ~file.readable THEN "PermissionError"
    ELSE "none"

\* The descriptors handed to gather_content: as resolve_files makes them,
\* or as the directive handlers do, original_source set or not.
MaxDescriptors == 2
GatherNames == {PlainX, BundleB}
Descriptors ==
    {FileContent(Path(n, 0), r, <<>>, Ext(n) \in bundle_extensions, o) :
        n \in GatherNames,
        r \in {default_range, <<Range(2, 2), Range(1, 2)>>},
        o \in {NoSource, Path(BundleA, 0)}}

GatherInit ==
    /\ fs \in [GatherNames -> FileStates]
    /\ file_contents \in SeqsUpTo(Descriptors, MaxDescriptors)
    /\ pc = "resolved"
    /\ argi = 1 /\ stack = <<>> /\ processed_files = {} /\ document = <<>>
    /\ origin = <<>> /\ exc = "none" /\ rendered = <<>>
    /\ StageIdle
    /\ RangeIdle
    /\ TocIdle /\ AuxIdle

\* The descriptors whose file does not open.
Failing == {i \in 1..Len(file_contents) : OpenError(fs[file_contents[i].filepath.name]) # "none"}

\* gather_content(file_contents): each descriptor is copied, its file read
\* and its ranges applied; the first file that does not open ends the call
\* with the exception, and the list built so far is dropped.
GatherContent ==
    /\ pc = "resolved"
    /\ IF Failing = {}
       THEN /\ content_items' =
                  [i \in 1..Len(file_contents) |->
                      GatherOne(file_contents[i], fs[file_contents[i].filepath.name].lines)]
            /\ pc' = "gathered"
            /\ UNCHANGED exc
       ELSE /\ exc' = OpenError(fs[file_contents[CHOOSE i \in Failing :
                                      \A j \in Failing : i <= j].filepath.name])
            /\ pc' = "raised"
            /\ UNCHANGED content_items
    /\ UNCHANGED <<fs, file_contents, argi, stack, processed_files, document, origin,
                   rendered, range_vars, file_paths, extensions, line_number_mode,
                   toc_vars, aux_vars>>

GatherNext == GatherContent

GatherSpec == GatherInit /\ [][GatherNext]_vars

\* ------------------------------------------------------ render_document

\* Documents made by hand, as the renderer's tests make them: fragments
\* with empty content, content with and without a final newline and content
\* ending in a blank line, from two paths, original_source set or not.
MaxFragments == 2
FragmentContents ==
    {<<>>, <<Partial("a")>>, <<Text("a")>>, <<Text("a"), Text("")>>, <<Text("")>>,
     <<Text("a"), Partial("b")>>}
Fragments ==
    {FileContent(Path(n, 0), default_range, c, FALSE, o) :
        n \in {PlainX, BundleA}, c \in FragmentContents, o \in {NoSource, Path(BundleA, 0)}}

RenderInit ==
    /\ document \in SeqsUpTo(Fragments, MaxFragments)
    /\ pc = "built"
    /\ fs = <<>> /\ file_contents = <<>> /\ argi = 1 /\ stack = <<>>
    /\ processed_files = {} /\ origin = <<>> /\ exc = "none" /\ rendered = <<>>
    /\ StageIdle
    /\ RangeIdle
    /\ TocIdle /\ AuxIdle

RenderNext == ApplyThemeToDocument \/ Render

RenderSpec == RenderInit /\ [][RenderNext]_vars

\* ------------------------------------------- render_document with a TOC

\* Documents whose fragments hold headings: up to MaxTocFragments fragments
\* of x.txt and a.ndoc, inlined into a.ndoc or not.
MaxTocFragments == 3
TocContents ==
    {<<Text("a")>>,
     <<Text("# A")>>,
     <<Text("a"), Text("## B"), Text("### C")>>,
     <<Text("#D"), Text("# "), Partial("#  E ")>>}
TocFragments ==
    {FileContent(Path(n, 0), default_range, c, FALSE, o) :
        n \in {PlainX}, c \in TocContents, o \in {NoSource, Path(BundleA, 0)}}
    \cup {FileContent(Path(BundleA, 0), default_range, c, FALSE, NoSource) :
             c \in TocContents}

TocInit ==
    /\ document \in SeqsUpTo(TocFragments, MaxTocFragments)
    /\ pc = "built"
    /\ fs = <<>> /\ file_contents = <<>> /\ argi = 1 /\ stack = <<>>
    /\ processed_files = {} /\ origin = <<>> /\ exc = "none" /\ rendered = <<>>
    /\ StageIdle
    /\ RangeIdle
    /\ TocIdle /\ AuxIdle

TocNext == Render

TocSpec == TocInit /\ [][TocNext]_vars

\* ---------------------------- apply_theme_to_document, then render_document
\*
\* process_v2, stages 5 and 6, on the Document a build returned.

\* Most fragments of such a Document.
MaxStageFragments == 2

StagesInit ==
    /\ document \in SeqsUpTo(TocFragments, MaxStageFragments)
    /\ pc = "built"
    /\ fs = <<>> /\ file_contents = <<>> /\ argi = 1 /\ stack = <<>>
    /\ processed_files = {} /\ origin = <<>> /\ exc = "none" /\ rendered = <<>>
    /\ StageIdle
    /\ RangeIdle
    /\ TocIdle /\ AuxIdle

StagesNext == ApplyThemeToDocument \/ Render

StagesSpec == StagesInit /\ [][StagesNext]_vars

\* ---------------------------------------------- format_with_line_numbers

\* Content of up to MaxFmtLines lines, the last one with or without its
\* newline, and start numbers up to MaxStart.
MaxFmtLines == 2
MaxStart == 5
FmtContents ==
    {c \in SeqsUpTo({Text("a"), Text("b"), Text(""), Partial("a"), Partial("b")},
                    MaxFmtLines) :
        \A i \in 1..(Len(c) - 1) : c[i].kind = "text"}

FmtInit ==
    /\ BuilderIdle /\ RangeIdle /\ TocIdle /\ V1Idle /\ PathIdle
    /\ fmt_content \in FmtContents
    /\ fmt_start \in 0..MaxStart
    /\ fmt_out = <<>>
    /\ fmt_pc = "call"

\* format_with_line_numbers(fmt_content, fmt_start)
FormatCall ==
    /\ fmt_pc = "call"
    /\ fmt_out' = FormatWithLineNumbersFrom(fmt_content, fmt_start)
    /\ fmt_pc' = "returned"
    /\ UNCHANGED <<builder_vars, range_vars, stage_vars, toc_vars, v1_vars, path_vars,
                   fmt_content, fmt_start>>

FmtNext == FormatCall

FmtSpec == FmtInit /\ [][FmtNext]_vars

\* ------------------------------------------------------- resolve_paths
\*
\* The PathResolver (nanodoc/v2/resolver.py, called by process_v2 as
\* resolve_paths) as spec.md 4.1 describes it.  A path is the sequence of
\* its segments, absolute or relative to the working directory /w, which
\* holds f.txt, the hidden .h.txt and the directory sub with g.txt.

\* Most arguments in one call.
MaxPathArgs == 3

Spelled(abs, segs) == [abs |-> abs, segs |-> segs]
Cwd == <<"w">>
TreeFiles == << <<"w", ".h.txt">>, <<"w", "f.txt">>, <<"w", "sub", "g.txt">> >>
TreeDirs == {<<"w">>, <<"w", "sub">>}
IsFile(segs) == \E i \in 1..Len(TreeFiles) : TreeFiles[i] = segs

\* os.path.normpath on segments: "." dropped, ".." takes back a segment.
RECURSIVE Normpath(_, _)
Normpath(segs, done) ==
    IF segs = <<>> THEN done
    ELSE IF Head(segs) = "." THEN Normpath(Tail(segs), done)
    ELSE IF Head(segs) = ".."
    THEN Normpath(Tail(segs), IF done = <<>> THEN <<>> ELSE SubSeq(done, 1, Len(done) - 1))
    ELSE Normpath(Tail(segs), Append(done, Head(segs)))

\* "all entries are converted to absolute paths"
Abspath(path) ==
    Spelled(TRUE, Normpath(IF path.abs THEN path.segs ELSE Cwd \o path.segs, <<>>))

\* An argument: a literal path (file or directory) or a glob pattern; the
\* one pattern here is "*.txt", the .txt files of the working directory.
PathArg(kind, path) == [kind |-> kind, path |-> path]
PathArguments ==
    {PathArg("path", Spelled(FALSE, <<"f.txt">>)),
     PathArg("path", Spelled(FALSE, <<".", "f.txt">>)),
     PathArg("path", Spelled(TRUE, <<"w", "f.txt">>)),
     PathArg("path", Spelled(FALSE, <<"sub", "g.txt">>)),
     PathArg("path", Spelled(FALSE, <<"m.txt">>)),
     PathArg("path", Spelled(FALSE, <<".">>)),
     PathArg("path", Spelled(TRUE, <<"w", "sub">>)),
     PathArg("glob", Spelled(FALSE, <<"*.txt">>))}

Hidden(segs, below) ==
    \E i \in (below + 1)..Len(segs) : segs[i] \in {".h.txt"}

\* The files a directory expands to: its own entries, or the whole tree
\* below it when recursive; hidden entries only with include_hidden.
FilesOfDirectory(dir, recursive, include_hidden) ==
    LET in == {i \in 1..Len(TreeFiles) :
                  /\ Len(TreeFiles[i]) > Len(dir)
                  /\ SubSeq(TreeFiles[i], 1, Len(dir)) = dir
                  /\ recursive \/ Len(TreeFiles[i]) = Len(dir) + 1
                  /\ include_hidden \/ ~Hidden(TreeFiles[i], Len(dir))}
        nth(k) == CHOOSE i \in in : Cardinality({j \in in : j < i}) = k - 1
    IN  [k \in 1..Cardinality(in) |-> Spelled(TRUE, TreeFiles[nth(k)])]

\* What one argument names, or a not-found error for a literal path that
\* does not exist.
ExpandArg(arg, recursive, include_hidden) ==
    LET segs == Abspath(arg.path).segs
    IN  IF arg.kind = "glob"
        THEN [ok |-> TRUE,
              paths |-> FilesOfDirectory(SubSeq(segs, 1, Len(segs) - 1), FALSE,
                                         include_hidden)]
        ELSE IF IsFile(segs)
        THEN [ok |-> TRUE, paths |-> <<Abspath(arg.path)>>]
        ELSE IF segs \in TreeDirs
        THEN [ok |-> TRUE, paths |-> FilesOfDirectory(segs, recursive, include_hidden)]
        ELSE [ok |-> FALSE, paths |-> <<>>]

\* The list with every path appended, seen before or not.
AppendAll(result, paths) == result \o paths

\* "deduplicated ... while preserving first-seen order"
RECURSIVE AppendNew(_, _)
AppendNew(result, paths) ==
    IF paths = <<>> THEN result
    ELSE AppendNew(IF \E i \in 1..Len(result) : result[i] = Head(paths)
                   THEN result ELSE Append(result, Head(paths)),
                   Tail(paths))

RECURSIVE ResolveFrom(_, _, _, _, _)
ResolveFrom(args, i, recursive, include_hidden, result) ==
    IF i > Len(args) THEN [ok |-> TRUE, paths |-> result]
    ELSE LET e == ExpandArg(args[i], recursive, include_hidden)
         IN  IF ~e.ok THEN [ok |-> FALSE, paths |-> <<>>]
             ELSE ResolveFrom(args, i + 1, recursive, include_hidden,
                              AppendNew(result, e.paths))

PathInit ==
    /\ BuilderIdle /\ RangeIdle /\ TocIdle /\ V1Idle /\ FmtIdle
    /\ path_args \in [args : SeqsUpTo(PathArguments, MaxPathArgs),
                      recursive : BOOLEAN, include_hidden : BOOLEAN]
    /\ resolved_paths = <<>>
    /\ path_pc = "call"

\* resolve_paths(args, recursive, include_hidden)
ResolvePaths ==
    /\ path_pc = "call"
    /\ LET r == ResolveFrom(path_args.args, 1, path_args.recursive,
                            path_args.include_hidden, <<>>)
       IN  /\ resolved_paths' = r.paths
           /\ path_pc' = IF r.ok THEN "returned" ELSE "raised"
    /\ UNCHANGED <<builder_vars, range_vars, stage_vars, toc_vars, v1_vars, fmt_vars,
                   path_args>>

PathNext == ResolvePaths

PathSpec == PathInit /\ [][PathNext]_vars

\* ----------------------------------------- v1: process_all (nanodoc.py)
\*
\* process_all of src/nanodoc/nanodoc.py: the table of contents with its
\* line numbers, then every file with its header and numbered lines.
\* (calculate_toc_size and calculate_line_numbers of src/src/nanodoc/toc.py
\* compute the same numbers when every file is one whole-file item.)
\* Strings are sequences of tokens: a newline, a header text, a TOC entry,
\* a line-number prefix, the text of line num of source src.

\* Most files handed to process_all, and longest file, in lines.
MaxSources == 3
MaxV1Lines == 2

SourceNames ==
    {[base |-> "a", ext |-> ".txt"], [base |-> "a", ext |-> ".md"],
     [base |-> "b", ext |-> ".txt"]}

\* What f.readlines() returns: count lines, the last one with or without
\* its newline.
V1File(count, newline) == [count |-> count, newline |-> newline]
V1Files ==
    {V1File(0, FALSE)} \cup {V1File(n, nl) : n \in 1..MaxV1Lines, nl \in BOOLEAN}
Source(name, file) == [name |-> name, file |-> file]

\* The lists of existing files with distinct paths init hands over.
SourceLists ==
    {s \in SeqsUpTo({Source(n, f) : n \in SourceNames, f \in V1Files}, MaxSources) :
        /\ s # <<>>
        /\ \A i, j \in 1..Len(s) : i # j => s[i].name # s[j].name}

Token(kind, src, num) == [kind |-> kind, src |-> src, num |-> num]
NL == Token("nl", 0, 0)

\* file_sort_key: (base_name, ext_priority), base names compared as strings.
BaseRank(base) == CASE base = "a" -> 1 [] base = "b" -> 2
ExtPriority(ext) == IF ext = ".txt" THEN 0 ELSE IF ext = ".md" THEN 1 ELSE 2
FileSortKeyLess(p, q) ==
    \/ BaseRank(p.base) < BaseRank(q.base)
    \/ BaseRank(p.base) = BaseRank(q.base) /\ ExtPriority(p.ext) < ExtPriority(q.ext)

\* sorted(verified_sources, key=file_sort_key), a stable sort.
RECURSIVE SortedSources(_)
SortedSources(s) ==
    IF s = <<>> THEN <<>>
    ELSE LET rest == SortedSources(Tail(s))
             k == Cardinality({i \in 1..Len(rest) :
                                  FileSortKeyLess(rest[i].name, Head(s).name)})
         IN  SubSeq(rest, 1, k) \o <<Head(s)>> \o SubSeq(rest, k + 1, Len(rest))

\* "toc_size = toc_header_lines + toc_entries_lines + toc_footer_lines"
CalculateTocSize(sources) == 2 + Len(sources) + 1

\* current_line before file i: toc_size, plus for each earlier file its
\* lines and 3 for its header.
RECURSIVE CurrentLine(_, _, _)
CurrentLine(sources, i, toc_size) ==
    IF i = 1 THEN toc_size
    ELSE CurrentLine(sources, i - 1, toc_size) + sources[i - 1].file.count + 3

\* "toc_line_numbers[source_file] = current_line + 3"
CalculateLineNumbers(sources, toc_size) ==
    [i \in 1..Len(sources) |-> CurrentLine(sources, i, toc_size) + 3]

\* The TOC: "\n" + header + "\n\n", one entry line per file, "\n".
CreateTocContent(sources, line_numbers) ==
    <<NL, Token("toc_header", 0, 0), NL, NL>>
    \o Concat([i \in 1..Len(sources) |-> <<Token("entry", i, line_numbers[i]), NL>>])
    \o <<NL>>

\* process_file: the header "\n" + header + "\n\n" when show_header, then
\* each line with its number prefix; a line carries its own newline.
ProcessFile(source, src, mode, line_counter, with_header) ==
    (IF with_header THEN <<NL, Token("header", src, 0), NL, NL>> ELSE <<>>)
    \o Concat([i \in 1..source.file.count |->
                 (CASE mode = "all" -> <<Token("number", src, line_counter + i)>>
                    [] mode = "file" -> <<Token("number", src, i)>>
                    [] OTHER -> <<>>)
                 \o <<Token("line", src, i)>>
                 \o (IF i < source.file.count \/ source.file.newline THEN <<NL>>
                     ELSE <<>>)])

\* The loop that hands every file the counter 0.
RECURSIVE ProcessFilesNoCarry(_, _, _, _, _)
ProcessFilesNoCarry(sources, i, mode, line_counter, with_header) ==
    IF i > Len(sources) THEN <<>>
    ELSE ProcessFile(sources[i], i, mode, 0, with_header)
         \o ProcessFilesNoCarry(sources, i + 1, mode, 0, with_header)

\* The loop over the files with its line_counter.
RECURSIVE ProcessFiles(_, _, _, _, _)
ProcessFiles(sources, i, mode, line_counter, with_header) ==
    IF i > Len(sources) THEN <<>>
    ELSE LET counter == IF mode = "file" THEN 0 ELSE line_counter
         IN  ProcessFile(sources[i], i, mode, counter, with_header)
             \o ProcessFiles(sources, i + 1, mode, counter + sources[i].file.count,
                             with_header)

V1Init ==
    /\ BuilderIdle /\ RangeIdle /\ TocIdle /\ FmtIdle /\ PathIdle
    /\ verified_sources \in SourceLists
    /\ generate_toc = FALSE /\ show_header = TRUE
    /\ output_buffer = <<>> /\ toc_line_numbers = <<>>
    /\ v1pc = "ready"

\* process_all(verified_sources, line_number_mode, generate_toc, show_header)
ProcessAllWith(sources, mode, gen_toc, with_header) ==
    /\ verified_sources' = sources
    /\ line_number_mode' = mode
    /\ generate_toc' = gen_toc
    /\ show_header' = with_header
    /\ toc_line_numbers' =
          IF gen_toc THEN CalculateLineNumbers(sources, CalculateTocSize(sources))
          ELSE <<>>
    /\ output_buffer' =
          (IF gen_toc
           THEN CreateTocContent(sources,
                    CalculateLineNumbers(sources, CalculateTocSize(sources)))
           ELSE <<>>)
          \o ProcessFiles(sources, 1, mode, 0, with_header)

ProcessAll ==
    /\ v1pc = "ready"
    /\ \E mode \in LineNumberModes, gen_toc \in BOOLEAN, with_header \in BOOLEAN :
          ProcessAllWith(SortedSources(verified_sources), mode, gen_toc, with_header)
    /\ v1pc' = "done"
    /\ UNCHANGED <<builder_vars, range_vars, file_paths, extensions, content_items,
                   toc_vars, fmt_vars, path_vars>>

V1Next == ProcessAll

V1Spec == V1Init /\ [][V1Next]_vars

\* ------------------------------------------------------------ the claims

\* The paths of the bundles whose expansion is in progress.
StackPaths == {stack[i].filepath : i \in 1..Len(stack)}

\* The directive line the bundle on top of the stack is about to process,
\* and the path it resolves to.
AtDirective ==
    /\ pc = "building" /\ exc = "none" /\ stack # <<>>
    /\ Top.i <= Len(Top.lines)
    /\ Top.lines[Top.i].kind \in {"inline", "include"}
TargetPath == ResolvePath(Top.filepath, Top.lines[Top.i].ref)
TargetReadable ==
    /\ ParseRanges(Top.lines[Top.i].ref.spec).ok
    /\ TargetPath.name \in DOMAIN fs

\* C1: a bundle that reaches itself through a chain of directives is never
\* entered while it is still being expanded (the re-entry raises
\* CircularDependencyError instead), so no file is expanded by two calls on
\* the stack at once, and the expansion does not run into the recursion limit.
C1_ReentryRaisesCircular ==
    /\ \A i, j \in 1..Len(stack) :
          i < j => stack[i].filepath.name # stack[j].filepath.name
    /\ exc # "RecursionError"

\* C2: the active set is at every moment the set of paths under expansion (a
\* path leaves it when its expansion finishes, by return or by exception);
\* CircularDependencyError is raised only for a path that is an ancestor on
\* the stack; and a directive naming a bundle whose path is no ancestor
\* (a sibling reference) enters that bundle again.
C2_RemovedWhenFinished ==
    /\ [](processed_files = StackPaths)
    /\ [][(exc = "none" /\ exc' = "CircularDependencyError")
             => (AtDirective /\ TargetPath \in StackPaths)]_vars
    /\ [][(AtDirective /\ TargetReadable /\ TargetPath \notin StackPaths
             /\ Ext(TargetPath.name) \in bundle_extensions /\ Len(stack) < MaxDepth)
             => (/\ Len(stack') = Len(stack) + 1
                 /\ stack'[Len(stack')].filepath = TargetPath
                 /\ exc' = "none")]_vars

\* C2 witness: b.ndoc has been expanded twice by two directives of the same
\* parent, and the build returned.
C2_Witness ==
    /\ pc = "built"
    /\ \E k, l \in 1..Len(document) :
          /\ document[k].filepath = Path(BundleB, 0)
          /\ document[l].filepath = Path(BundleB, 0)
          /\ origin[k].pos = <<1, 1, 1>>
          /\ origin[l].pos = <<1, 2, 1>>

\* The content of every fragment, in Document order.
Contents(doc) == [k \in 1..Len(doc) |-> doc[k].content]

HeaderMissingFooter ==
    <<Text("Header"), Directive("inline", Ref(Missing, "rel", <<>>)), Text("Footer")>>

\* C3: a directive whose target does not exist (its range specifier, if any,
\* being well formed) does not raise: the step appends, after the literal run
\* before it, exactly one fragment whose content is the error text naming the
\* reference, and goes on with the next line of the same bundle; the bundle
\* "Header / @inline m.txt / Footer" gives exactly the three fragments Header,
\* error text, Footer.
C3_MissingTargetRecovered ==
    /\ [][(/\ AtDirective
           /\ ParseRanges(Top.lines[Top.i].ref.spec).ok
           /\ TargetPath.name \notin DOMAIN fs)
          => (/\ exc' = "none" /\ pc' = "building"
              /\ Len(stack') = Len(stack)
              /\ stack'[Len(stack')].i = Top.i + 1
              /\ stack'[Len(stack')].lines = Top.lines
              /\ Len(document') = Len(document) + (IF Top.cur # <<>> THEN 2 ELSE 1)
              /\ SubSeq(document', 1, Len(document)) = document
              /\ Top.cur # <<>> => document'[Len(document') - 1].content = Top.cur
              /\ document'[Len(document')].content =
                    <<ErrorLine(IF Top.lines[Top.i].kind = "inline"
                                THEN "error_inline" ELSE "error_include",
                                Top.lines[Top.i].ref)>>)]_vars
    /\ []((/\ pc = "built"
           /\ Len(file_contents) = 1
           /\ file_contents[1].filepath = Path(BundleB, 0)
           /\ fs[BundleB] = HeaderMissingFooter)
          => Contents(document) =
                <<<<Text("Header")>>,
                  <<ErrorLine("error_inline", Ref(Missing, "rel", <<>>))>>,
                  <<Text("Footer")>>>>)

\* C3 witness: the build of "Header / @inline m.txt / Footer" has returned a
\* Document of three fragments with the error text in the middle.
C3_Witness ==
    /\ pc = "built"
    /\ Len(file_contents) = 1
    /\ file_contents[1].filepath = Path(BundleB, 0)
    /\ fs[BundleB] = HeaderMissingFooter
    /\ Len(document) = 3
    /\ document[2].content = <<ErrorLine("error_inline", Ref(Missing, "rel", <<>>))>>

\* p comes before q in a left-to-right, depth-first scan: at the first index
\* where they differ p has the smaller argument or line number.
ScanBefore(p, q) ==
    \E k \in 1..Min(Len(p), Len(q)) :
        /\ p[k] < q[k]
        /\ \A m \in 1..(k - 1) : p[m] = q[m]

\* C4: the fragments of the Document are in the order of the scan: for any
\* two fragments, the earlier one comes from an earlier top-level argument or,
\* inside the same bundle, from an earlier line (a literal run counts from its
\* first line, an expansion from its directive's line), at every depth.
C4_ScanOrder ==
    /\ Len(origin) = Len(document)
    /\ \A k, l \in 1..Len(document) :
          k < l => ScanBefore(origin[k].pos, origin[l].pos)

\* C4 witness: a returned Document with a plain file, a bundle's literal run
\* and the three fragments of a nested bundle, one of them inlined there.
C4_Witness ==
    /\ pc = "built"
    /\ Len(document) >= 5
    /\ \E k \in 1..Len(document) : Len(origin[k].pos) = 3 /\ origin[k].via = "inline"

\* The innermost @inline directive a fragment was reached through (0: none).
InnermostInline(o) ==
    LET at == {d \in 1..Len(o.dirs) : o.dirs[d].kind = "inline"}
    IN  IF at = {} THEN 0 ELSE CHOOSE d \in at : \A e \in at : e <= d

\* C5: every fragment contributed by an @inline directive whose target could
\* be read carries original_source = the path of the bundle that holds the
\* directive, whether the target is a plain file or a bundle (for a fragment
\* under several @inline directives: the innermost one).
C5_InlinedCarriesParent ==
    \A k \in 1..Len(document) :
        (/\ InnermostInline(origin[k]) # 0
         /\ ~(origin[k].via = "error" /\ InnermostInline(origin[k]) = Len(origin[k].dirs)))
        => document[k].original_source = origin[k].dirs[InnermostInline(origin[k])].bundle

\* The path an @include/@inline reference denotes: an absolute reference as
\* it is, a relative one under the directory of the bundle holding it.
ExpectedPath(bundle, ref) ==
    IF ref.form = "abs" THEN [name |-> ref.name, dots |-> 0]
    ELSE [name |-> ref.name, dots |-> bundle.dots + (IF ref.form = "dot" THEN 1 ELSE 0)]

PlainTargetAt(kind) ==
    /\ AtDirective
    /\ Top.lines[Top.i].kind = kind
    /\ TargetReadable
    /\ Ext(Top.lines[Top.i].ref.name) \notin bundle_extensions

\* C6: an @include whose target is a readable plain file contributes exactly
\* one fragment (after the literal run before it): its path is the target
\* (relative reference joined to the including bundle's directory, absolute
\* one as it is), its original_source is unset, and the handler is done.
C6_IncludePlainFile ==
    [][PlainTargetAt("include")
       => (/\ Len(document') = Len(document) + (IF Top.cur # <<>> THEN 2 ELSE 1)
           /\ SubSeq(document', 1, Len(document)) = document
           /\ Top.cur # <<>> => document'[Len(document') - 1].content = Top.cur
           /\ document'[Len(document')].filepath =
                 ExpectedPath(Top.filepath, Top.lines[Top.i].ref)
           /\ document'[Len(document')].original_source = NoSource
           /\ ~document'[Len(document')].is_bundle
           /\ Len(stack') = Len(stack) /\ exc' = "none")]_vars

\* C6 witness: a returned Document holds x.txt, included by relative
\* reference from a bundle, with no original_source.
C6_Witness ==
    /\ pc = "built"
    /\ \E k \in 1..Len(document) :
          /\ origin[k].via = "include"
          /\ document[k].filepath = Path(PlainX, 0)
          /\ document[k].original_source = NoSource
          /\ document[k].content = ContentX

\* C7: a non-bundle descriptor is appended as exactly one fragment with its
\* path, ranges and content as gathered, and is not entered: as a top-level
\* argument the very descriptor is appended; as a directive target the
\* fragment has the target's path, the ranges of the reference and the lines
\* of the file those ranges select, directive-like lines included.  No
\* fragment ever comes from scanning a plain file.
C7_PlainFileVerbatim ==
    /\ [][(/\ pc = "building" /\ exc = "none" /\ stack = <<>>
           /\ argi <= Len(file_contents)
           /\ ~file_contents[argi].is_bundle)
          => (/\ document' = Append(document, file_contents[argi])
              /\ stack' = <<>> /\ exc' = "none")]_vars
    /\ [][(PlainTargetAt("include") \/ PlainTargetAt("inline"))
          => (/\ Len(document') = Len(document) + (IF Top.cur # <<>> THEN 2 ELSE 1)
              /\ document'[Len(document')].filepath = TargetPath
              /\ document'[Len(document')].ranges =
                    ParseRanges(Top.lines[Top.i].ref.spec).ranges
              /\ document'[Len(document')].content =
                    Concat([r \in 1..Len(document'[Len(document')].ranges) |->
                              ApplyOneRange(fs[TargetPath.name],
                                            document'[Len(document')].ranges[r])])
              /\ ~document'[Len(document')].is_bundle
              /\ Len(stack') = Len(stack) /\ exc' = "none")]_vars
    /\ [](\A k \in 1..Len(document) :
             /\ origin[k].via \in {"literal", "error"}
                   => Ext(document[k].filepath.name) \in bundle_extensions
             /\ \A d \in 1..Len(origin[k].dirs) :
                   Ext(origin[k].dirs[d].bundle.name) \in bundle_extensions)

\* C7 witness: x.txt, one of whose lines reads "@include a.ndoc", is in the
\* returned Document twice with all its lines, once as a top-level argument
\* and once as the target of a directive.
C7_Witness ==
    /\ pc = "built"
    /\ \E k, l \in 1..Len(document) :
          /\ origin[k].via = "top" /\ document[k].content = ContentX
          /\ origin[l].via \in {"include", "inline"} /\ document[l].content = ContentX
          /\ ContentX[2] = Directive("include", Ref(BundleA, "rel", <<>>))

\* The header part right before the content part of fragment k.
HeaderBefore(k) ==
    \E p \in 1..(Len(rendered) - 1) :
        /\ rendered[p].kind = "header" /\ rendered[p].item = k
        /\ rendered[p + 1].kind = "content" /\ rendered[p + 1].item = k

\* C8: in the rendered output a header stands right before a fragment exactly
\* when the fragment's effective source differs from the previous fragment's
\* (or it is the first fragment) and the fragment was not produced by an
\* @inline directive; this for every kind of fragment, a bundle's own
\* literal runs included.
C8_HeaderRule ==
    pc = "rendered" =>
        \A k \in 1..Len(document) :
            HeaderBefore(k) <=>
                (/\ k = 1 \/ EffectiveSource(document[k]) # EffectiveSource(document[k - 1])
                 /\ origin[k].via # "inline")

\* C8 as amended: a header stands right before a fragment exactly when the
\* fragment's original_source is unset and its path differs from the previous
\* fragment's effective source (or it is the first fragment).  Every fragment
\* with original_source set goes without a header: @inline'd files, and also
\* a bundle's own literal runs and the error fragments of its directives.
C8_HeaderIffUnsetAndDifferent ==
    pc = "rendered" =>
        \A k \in 1..Len(document) :
            HeaderBefore(k) <=>
                (/\ document[k].original_source = NoSource
                 /\ k = 1 \/ document[k].filepath # EffectiveSource(document[k - 1]))

\* C8 witness: a rendered Document that starts with a bundle's literal run,
\* without header, and holds an included file with its header.
C8_Witness ==
    /\ pc = "rendered"
    /\ Len(document) >= 2
    /\ origin[1].via = "literal" /\ document[1].original_source = document[1].filepath
    /\ ~HeaderBefore(1)
    /\ \E k \in 2..Len(document) : origin[k].via = "include" /\ HeaderBefore(k)

\* The lines of a file whose numbers are in S, in file order.
SelectLines(lines, S) ==
    LET F[i \in 0..Len(lines)] ==
            IF i = 0 THEN <<>>
            ELSE IF i \in S THEN Append(F[i - 1], lines[i]) ELSE F[i - 1]
    IN  F[Len(lines)]

\* The block of one range: line s alone when s = e, lines s..e-1 when s < e,
\* lines s..last for the EOF sentinel.
Block(lines, r) ==
    SelectLines(lines,
        IF r.eof THEN {i \in 1..Len(lines) : i >= r.start}
        ELSE IF r.start = r.end THEN {r.start}
        ELSE r.start..(r.end - 1))

OneToN(n) == <<"1", "-", DigitChar(n)>>

\* C9: for a file of N >= 1 lines, "file:1-N" parsed and gathered gives the
\* whole file, line N included.
C9_OneToNIsWholeFile ==
    (rpc = "gathered" /\ Len(rlines) >= 1 /\ rspec = OneToN(Len(rlines)))
        => rout = rlines

\* C9 as amended: "file:1-N" gives the whole file only for N = 1 and lines
\* 1..N-1 for N >= 2 (the end of a range is exclusive); the whole file comes
\* from "file:1-(N+1)" and from "file:1-".
C9_OneToNStopsBeforeN ==
    /\ (rpc = "gathered" /\ Len(rlines) >= 1 /\ rspec = OneToN(Len(rlines)))
          => rout = IF Len(rlines) = 1 THEN rlines
                    ELSE SubSeq(rlines, 1, Len(rlines) - 1)
    /\ (rpc = "gathered" /\ Len(rlines) >= 1 /\ Len(rlines) < MaxFileLines
          /\ rspec = OneToN(Len(rlines) + 1))
          => rout = rlines
    /\ (rpc = "gathered" /\ rspec = <<"1", "-">>) => rout = rlines

\* C9 witness: "file:1-3" on a file of three lines has returned lines 1, 2.
C9_Witness ==
    /\ rpc = "gathered"
    /\ rspec = <<"1", "-", "3">>
    /\ rlines = FileOf(3)
    /\ rout = <<Text("1"), Text("2")>>

\* C10: apply_ranges returns the blocks of its ranges concatenated in the
\* order given, not sorted, not merged, repeated lines repeated.
C10_BlocksInOrder ==
    rpc \in {"gathered", "applied"}
        => rout = Concat([i \in 1..Len(rranges) |-> Block(rlines, rranges[i])])

\* C10 witness: ranges (2,4),(2,2) on a file of three lines have returned
\* lines 2, 3, 2.
C10_Witness ==
    /\ rpc = "applied"
    /\ rranges = <<Range(2, 4), Range(2, 2)>>
    /\ rlines = FileOf(3)
    /\ rout = <<Text("2"), Text("3"), Text("2")>>

\* A range specifier as written, blanks dropped, cut at its commas.
NoBlanks(s) == SelectSeq(s, LAMBDA c : c # " ")
PartStarts(s) == {i \in 1..Len(s) : s[i] # "," /\ (i = 1 \/ s[i - 1] = ",")}
PartEnd(s, i) ==
    CHOOSE j \in i..Len(s) :
        /\ \A k \in i..j : s[k] # ","
        /\ j = Len(s) \/ s[j + 1] = ","
NthStart(s, n) ==
    CHOOSE i \in PartStarts(s) : Cardinality({j \in PartStarts(s) : j <= i}) = n
WrittenParts(s) ==
    [n \in 1..Cardinality(PartStarts(s)) |->
        SubSeq(s, NthStart(s, n), PartEnd(s, NthStart(s, n)))]

\* The number a decimal numeral denotes.
Numeral(s) ==
    LET F[i \in 0..Len(s)] ==
            IF i = 0 THEN 0
            ELSE 10 * F[i - 1] + (CHOOSE n \in 0..9 : DigitChar(n) = s[i])
    IN  F[Len(s)]

\* 'N' is (N, N), 'N-' is (N, EOF), 'N-M' is (N, M).
RangeWritten(p) ==
    LET dashes == {i \in 1..Len(p) : p[i] = "-"}
        d == CHOOSE i \in dashes : \A j \in dashes : i <= j
    IN  IF dashes = {} THEN Range(Numeral(p), Numeral(p))
        ELSE IF d = Len(p) THEN ToEOF(Numeral(SubSeq(p, 1, d - 1)))
        ELSE Range(Numeral(SubSeq(p, 1, d - 1)), Numeral(SubSeq(p, d + 1, Len(p))))

\* C11: when parse_path_and_ranges returns, the ranges are one per non-empty
\* comma-separated part of the specifier, in the order written ('N' as
\* (N, N), 'N-M' as (N, M), 'N-' as (N, EOF)), blanks around numbers, commas
\* and dashes ignored; no part at all gives the default range (1, EOF).
C11_RangesAsWritten ==
    rpc \in {"parsed", "gathered"}
        => rranges = IF PartStarts(NoBlanks(rspec)) = {} THEN <<ToEOF(1)>>
                     ELSE [n \in 1..Cardinality(PartStarts(NoBlanks(rspec))) |->
                              RangeWritten(WrittenParts(NoBlanks(rspec))[n])]

\* C11 witness: "3,1-" has been parsed to (3, 3), (1, EOF).
C11_Witness ==
    /\ rpc = "parsed"
    /\ rspec = <<"3", ",", "1", "-">>
    /\ rranges = <<Range(3, 3), ToEOF(1)>>

\* A token that reads as a number: digits with blanks around them only.
Blank(t) == \A i \in 1..Len(t) : t[i] = " "
IsNumber(t) ==
    \E i, j \in 1..Len(t) :
        /\ i <= j
        /\ \A k \in 1..Len(t) : IF k < i \/ k > j THEN t[k] = " " ELSE t[k] \in Digits
NumberOf(t) == Numeral(SelectSeq(t, LAMBDA c : c \in Digits))

\* A part of a specifier that the claim calls malformed: a start or an end
\* that is not a number, a number <= 0, or an explicit end below the start.
BadNumber(t) == ~IsNumber(t) \/ NumberOf(t) <= 0
BadPart(p) ==
    LET dashes == {i \in 1..Len(p) : p[i] = "-"}
        d == CHOOSE i \in dashes : \A j \in dashes : i <= j
        start_str == SubSeq(p, 1, d - 1)
        end_str == SubSeq(p, d + 1, Len(p))
    IN  IF dashes = {} THEN BadNumber(p)
        ELSE IF Blank(end_str) THEN BadNumber(start_str)
        ELSE \/ BadNumber(start_str) \/ BadNumber(end_str)
             \/ NumberOf(end_str) < NumberOf(start_str)
SomeBadPart(s) ==
    \E n \in 1..Cardinality(PartStarts(s)) :
        ~Blank(WrittenParts(s)[n]) /\ BadPart(WrittenParts(s)[n])

\* C12: parse_path_and_ranges raises ValueError and returns nothing whenever
\* some non-empty part of the specifier has a start or end that is not a
\* number, a line number <= 0, or an explicit end smaller than its start;
\* it raises for no other specifier, so a part with end = start is accepted.
C12_MalformedIsValueError ==
    /\ rpc \in {"parsed", "gathered"} => ~SomeBadPart(rspec)
    /\ (rpc = "error" /\ rspec # <<>>) => (SomeBadPart(rspec) /\ rranges = <<>>)

\* C12 witness: "3-2" has been refused.
C12_Witness ==
    /\ rpc = "error"
    /\ rspec = <<"3", "-", "2">>
    /\ rranges = <<>>

\* apply_ranges has been called directly and has returned or raised.
DirectDone == rpc = "applied" \/ (rpc = "error" /\ rspec = <<>>)

\* C13: apply_ranges on any lines, the empty list included, raises nothing
\* when every start is >= 1 and returns only lines of the input (nothing for
\* a range beyond the last line, an end beyond it clamped); a range whose
\* start is zero or negative is a format error.
C13_ClampsOrFormatError ==
    DirectDone =>
        IF \A i \in 1..Len(rranges) : rranges[i].start >= 1
        THEN /\ rpc = "applied"
             /\ \A k \in 1..Len(rout) : \E n \in 1..Len(rlines) : rout[k] = rlines[n]
             /\ (\A i \in 1..Len(rranges) : rranges[i].start > Len(rlines))
                   => rout = <<>>
        ELSE rpc = "error"

\* A ranges list as the invariant of ContentDescriptor wants it.
ValidRanges(ranges) ==
    /\ ranges # <<>>
    /\ \A i \in 1..Len(ranges) :
          ranges[i].start >= 1 /\ (ranges[i].eof \/ ranges[i].end >= ranges[i].start)

\* C14: every descriptor in the pipeline, the gathered descriptors handed
\* to build_document and every fragment of the Document, a bundle's literal
\* runs and the error fragments included, has a non-empty ranges list with
\* every start >= 1 and every end the EOF sentinel or >= its start.
C14_RangesNeverEmpty ==
    /\ \A i \in 1..Len(file_contents) : ValidRanges(file_contents[i].ranges)
    /\ \A k \in 1..Len(document) : ValidRanges(document[k].ranges)

\* C14 as amended: the descriptors of files (those resolve_files and
\* gather_content return, hence every fragment that is a top-level, included
\* or inlined file) have such a ranges list; a bundle's literal runs and the
\* error fragments of its directives have an empty ranges list.
C14_RangesOfFilesValid ==
    /\ \A i \in 1..Len(file_contents) : ValidRanges(file_contents[i].ranges)
    /\ \A k \in 1..Len(document) :
          IF origin[k].via \in {"literal", "error"}
          THEN document[k].ranges = <<>>
          ELSE ValidRanges(document[k].ranges)

\* C14 witness: a returned Document holds a literal run and an error
\* fragment without ranges and a file with the default range (1, EOF).
C14_Witness ==
    /\ pc = "built"
    /\ \E k, l, m \in 1..Len(document) :
          /\ origin[k].via = "literal" /\ document[k].ranges = <<>>
          /\ origin[l].via = "error" /\ document[l].ranges = <<>>
          /\ origin[m].via \in {"top", "include", "inline"}
          /\ document[m].ranges = <<ToEOF(1)>>

\* C15: no fragment of the Document is a bundle descriptor, whatever the
\* arguments and the nesting of bundles and directives: a bundle is never
\* appended, only the fragments of its expansion.
C15_NoBundleInDocument ==
    \A k \in 1..Len(document) :
        /\ ~document[k].is_bundle
        /\ \A i \in 1..Len(file_contents) :
              file_contents[i].is_bundle => document[k] # file_contents[i]

\* C15 witness: a Document returned for a bundle argument holds a fragment
\* reached through two nested directives, and it is not a bundle.
C15_Witness ==
    /\ pc = "built"
    /\ \E i \in 1..Len(file_contents) : file_contents[i].is_bundle
    /\ \E k \in 1..Len(document) :
          Len(origin[k].dirs) >= 2 /\ ~document[k].is_bundle

\* C16: resolve_files marks a descriptor as a bundle exactly when the
\* extension of its path, the range specifier removed, is one of
\* bundle_extensions (by default .ndoc and .bundle) whatever the case of its
\* letters, or its name contains ".bundle."; a custom list replaces the
\* default extensions but not the ".bundle." rule.
C16_BundleClassification ==
    pc = "resolved" =>
        \A i \in 1..Len(file_contents) :
            /\ file_contents[i].filepath = file_paths[i].name
            /\ file_contents[i].is_bundle <=>
                  \/ \E e \in (IF extensions.given THEN extensions.list
                               ELSE {".ndoc", ".bundle"}) :
                        Lower(e) = Lower(SplitExt(file_paths[i].name))
                  \/ HasBundleInfix(file_paths[i].name)

\* C17: gather_content leaves the descriptors it is given as they are,
\* content empty.  When every file opens it returns a list of the same
\* length and order whose descriptors have the path, ranges, is_bundle and
\* original_source of the inputs and the extraction of the file as content;
\* when some file cannot be opened it fails with a not-found error and
\* returns nothing.
C17_GatherLeavesInputs ==
    [][pc = "resolved" =>
        /\ file_contents' = file_contents
        /\ \A i \in 1..Len(file_contents') : file_contents'[i].content = <<>>
        /\ IF \A i \in 1..Len(file_contents) :
                 /\ fs[file_contents[i].filepath.name].exists
                 /\ fs[file_contents[i].filepath.name].readable
           THEN /\ pc' = "gathered"
                /\ Len(content_items') = Len(file_contents)
                /\ \A i \in 1..Len(file_contents) :
                      /\ content_items'[i].filepath = file_contents[i].filepath
                      /\ content_items'[i].ranges = file_contents[i].ranges
                      /\ content_items'[i].is_bundle = file_contents[i].is_bundle
                      /\ content_items'[i].original_source =
                            file_contents[i].original_source
                      /\ content_items'[i].content =
                            Concat([r \in 1..Len(file_contents[i].ranges) |->
                                      Block(fs[file_contents[i].filepath.name].lines,
                                            file_contents[i].ranges[r])])
           ELSE /\ pc' = "raised"
                /\ exc' = "FileNotFoundError"
                /\ content_items' = <<>>]_vars

\* The number of newline characters the text of parts lo..j ends with: a
\* header is "# name" and two newlines, a separator or an added newline is
\* one newline, a numbered line begins with its number.
RECURSIVE TrailingNewlines(_, _, _)
TrailingNewlines(parts, j, lo) ==
    IF j < lo THEN 0
    ELSE IF parts[j].kind \in {"header", "toc"} THEN 2
    ELSE IF parts[j].kind \in {"sep", "newline"} THEN 1 + TrailingNewlines(parts, j - 1, lo)
    ELSE LET text == parts[j].text
             blank(l) == "num" \notin DOMAIN l /\ l.kind # "partial" /\ l.text = ""
             ended(l) == "num" \notin DOMAIN l /\ l.kind # "partial"
             n == Cardinality({i \in 1..Len(text) : \A m \in i..Len(text) : blank(text[m])})
         IN  IF text = <<>> THEN TrailingNewlines(parts, j - 1, lo)
             ELSE IF ~ended(text[Len(text)]) THEN 0
             ELSE IF n = Len(text) THEN n + TrailingNewlines(parts, j - 1, lo)
             ELSE IF n = 0 THEN 1
             ELSE n + 1

\* C18: in the output, two consecutive fragments that are both non-inlined
\* and from different sources are separated by at least one empty line: the
\* text before the second's header ends with two newlines, whatever the
\* content of the first (empty, with or without a final newline, ending in
\* blank lines), with line numbers or without.
C18_BlankLineBetweenSources ==
    pc = "rendered" =>
        \A k \in 2..Len(document) :
            (/\ document[k - 1].original_source = NoSource
             /\ document[k].original_source = NoSource
             /\ document[k].filepath # document[k - 1].filepath)
            => \E p \in 2..Len(rendered) :
                  /\ rendered[p].kind = "header" /\ rendered[p].item = k
                  /\ TrailingNewlines(rendered, p - 1, 1) >= 2

\* C18 witness: "a" without newline from x.txt, then a fragment of a.ndoc,
\* both with original_source unset, rendered with a separator between them.
C18_Witness ==
    /\ pc = "rendered"
    /\ Len(document) = 2
    /\ document[1] = FileContent(Path(PlainX, 0), default_range, <<Partial("a")>>, FALSE,
                                 NoSource)
    /\ document[2].filepath = Path(BundleA, 0) /\ document[2].original_source = NoSource
    /\ \E p \in 1..Len(rendered) : rendered[p].kind = "sep" /\ rendered[p].item = 2

\* The parts emitted for fragment k.
PartsOf(k) == {p \in 1..Len(rendered) : rendered[p].item = k}

\* C19: the text emitted for each fragment ends with a newline, also when
\* the content does not or is empty, so that nothing of the next fragment
\* continues its last line, and the output of a non-empty Document ends
\* with a newline.
C19_FragmentEndsWithNewline ==
    pc = "rendered" =>
        /\ \A k \in 1..Len(document) :
              /\ PartsOf(k) # {}
              /\ TrailingNewlines(rendered,
                                  CHOOSE q \in PartsOf(k) : \A p \in PartsOf(k) : p <= q,
                                  CHOOSE q \in PartsOf(k) : \A p \in PartsOf(k) : q <= p) >= 1
        /\ document # <<>> => TrailingNewlines(rendered, Len(rendered), 1) >= 1

\* C19 witness: a fragment "a\nb" without final newline and an empty
\* fragment have been rendered, each followed by an added newline.
C19_Witness ==
    /\ pc = "rendered"
    /\ Len(document) = 2
    /\ document[1].content = <<Text("a"), Partial("b")>>
    /\ document[2].content = <<>>
    /\ \A k \in 1..2 : \E p \in PartsOf(k) : rendered[p].kind = "newline"

\* The number of numbered lines in the content parts before part p.
RECURSIVE NumberedBefore(_)
NumberedBefore(p) ==
    IF p <= 1 THEN 0
    ELSE NumberedBefore(p - 1)
         + (IF rendered[p - 1].kind = "content" THEN Len(rendered[p - 1].text) ELSE 0)

\* C20: with line numbering on, every content line carries a 1-based
\* number; in mode "all" the numbers run on across all fragments of the
\* Document without restarting, in mode "file" the first line of a fragment
\* of another file than the one before is numbered 1.
C20_NumberingFollowsMode ==
    (pc = "rendered" /\ line_number_mode \in {"file", "all"}) =>
        \A p \in 1..Len(rendered) :
            rendered[p].kind = "content" =>
                LET text == rendered[p].text
                    k == rendered[p].item
                IN  /\ \A i \in 1..Len(text) : "num" \in DOMAIN text[i]
                    /\ line_number_mode = "all" =>
                          \A i \in 1..Len(text) : text[i].num = NumberedBefore(p) + i
                    /\ (/\ line_number_mode = "file"
                        /\ text # <<>>
                        /\ k > 1 => document[k].filepath # document[k - 1].filepath)
                       => text[1].num = 1

\* The 1-based output line on which token t of the output begins.
LineOf(t) == 1 + Cardinality({j \in 1..(t - 1) : output_buffer[j] = NL})

\* C21: with a table of contents and headers, the TOC has an entry for every
\* file, the numbers of successive entries strictly increase, and the number
\* shown for a file is the line of the final output, TOC included, on which
\* the file's header stands.
C21_TocLineIsHeaderLine ==
    (v1pc = "done" /\ generate_toc /\ show_header) =>
        \A i \in 1..Len(verified_sources) :
            /\ \E e, h \in 1..Len(output_buffer) :
                  /\ output_buffer[e].kind = "entry" /\ output_buffer[e].src = i
                  /\ output_buffer[h] = Token("header", i, 0)
                  /\ output_buffer[e].num = LineOf(h)
            /\ i > 1 => toc_line_numbers[i - 1] < toc_line_numbers[i]

\* The positions of the content lines and of the number prefixes in the
\* output, and how many of them come before position t.
LineTokens == {t \in 1..Len(output_buffer) : output_buffer[t].kind = "line"}
NumberTokens == {t \in 1..Len(output_buffer) : output_buffer[t].kind = "number"}
LinesBefore(t) == Cardinality({u \in LineTokens : u < t})

RECURSIVE TotalLines(_, _)
TotalLines(sources, i) ==
    IF i > Len(sources) THEN 0 ELSE sources[i].file.count + TotalLines(sources, i + 1)

\* C25: process_all of v1 with line_number_mode "all" numbers the content
\* lines of the whole output 1..T in order, T the number of content lines of
\* all files, the count running on from file to file; with "file" the lines
\* of every file are numbered from 1; with None no line has a number.
C25_V1Numbering ==
    v1pc = "done" =>
        /\ Cardinality(LineTokens) = TotalLines(verified_sources, 1)
        /\ line_number_mode = "None" => NumberTokens = {}
        /\ line_number_mode \in {"all", "file"} =>
              /\ \A t \in NumberTokens : t + 1 \in LineTokens
              /\ \A t \in LineTokens :
                    /\ t > 1 /\ t - 1 \in NumberTokens
                    /\ output_buffer[t - 1].num =
                          IF line_number_mode = "all" THEN LinesBefore(t) + 1
                          ELSE output_buffer[t].num

\* C25 witness: with "all", the first line of the second file has got the
\* number 3 after a first file of two lines.
C25_Witness ==
    /\ v1pc = "done" /\ line_number_mode = "all"
    /\ Len(verified_sources) >= 2
    /\ verified_sources[1].file.count = 2
    /\ \E t \in LineTokens :
          /\ output_buffer[t] = Token("line", 2, 1)
          /\ output_buffer[t - 1] = Token("number", 2, 3)

\* A level-n heading: n times "#", a blank, and text after the blanks.
IsHeading(line, n) ==
    LET chars == LineChars(line)
    IN  /\ Len(chars) > n + 1
        /\ \A m \in 1..n : chars[m] = "#"
        /\ chars[n + 1] = " "
        /\ \E m \in (n + 2)..Len(chars) : chars[m] # " "

\* The heading text: what follows the "#"s, without the blanks around it.
TextOfHeading(line, n) ==
    LET chars == LineChars(line)
        inner == {m \in (n + 1)..Len(chars) : chars[m] # " "}
    IN  [m \in 1..Cardinality(inner) |->
            chars[(CHOOSE lo \in inner : \A x \in inner : lo <= x) + m - 1]]

\* (heading text, line index) for the level-1 and level-2 headings of a
\* fragment, in line order, and those of all fragments of one effective
\* source, in fragment order.
RECURSIVE HeadingsFromLine(_, _)
HeadingsFromLine(content, i) ==
    IF i > Len(content) THEN <<>>
    ELSE (IF \E n \in 1..2 : IsHeading(content[i], n)
          THEN <<[heading |-> TextOfHeading(content[i],
                                 CHOOSE n \in 1..2 : IsHeading(content[i], n)),
                  line |-> i]>>
          ELSE <<>>)
         \o HeadingsFromLine(content, i + 1)
HeadingsOfSource(source) ==
    Concat([k \in 1..Len(document) |->
              IF EffectiveSource(document[k]) = source
              THEN HeadingsFromLine(document[k].content, 1) ELSE <<>>])

\* The fragments with a level-1 or level-2 heading that are the first such
\* fragment of their effective source.
FirstWithHeadings ==
    {k \in 1..Len(document) :
        /\ HeadingsFromLine(document[k].content, 1) # <<>>
        /\ \A j \in 1..(k - 1) :
              EffectiveSource(document[j]) = EffectiveSource(document[k])
              => HeadingsFromLine(document[j].content, 1) = <<>>}

\* The mapping the claim describes: one group per effective source, in the
\* order of first appearance.
GroupsAsClaimed(groups) ==
    /\ Len(groups) = Cardinality(FirstWithHeadings)
    /\ \A g \in 1..Len(groups) :
          LET k == CHOOSE k \in FirstWithHeadings :
                      Cardinality({j \in FirstWithHeadings : j < k}) = g - 1
          IN  /\ groups[g].file_path = EffectiveSource(document[k])
              /\ groups[g].headings = HeadingsOfSource(groups[g].file_path)

\* The TOC block comes first and nowhere else.
TocPrepended ==
    /\ rendered # <<>> /\ rendered[1].kind = "toc"
    /\ \A p \in 2..Len(rendered) : rendered[p].kind # "toc"

NoHeadingMarker(line) == \A n \in 1..5 : ~IsHeading(line, n)

\* C23: for a fragment whose content has no heading markers the TOC data
\* hold a pseudo-heading under the fragment's file, the text of its first
\* line at line 1, and the TOC block lists that file: a Document of plain
\* text files still gets a table of contents naming every file.
C23_PseudoHeadingForPlainText ==
    (pc = "rendered" /\ include_toc) =>
        \A k \in 1..Len(document) :
            (/\ document[k].content # <<>>
             /\ \A i \in 1..Len(document[k].content) :
                   NoHeadingMarker(document[k].content[i]))
            => /\ \E g \in 1..Len(toc.groups) :
                     /\ toc.groups[g].file_path = EffectiveSource(document[k])
                     /\ \E h \in 1..Len(toc.groups[g].headings) :
                           toc.groups[g].headings[h] =
                              [heading |-> LineChars(document[k].content[1]), line |-> 1]
               /\ rendered # <<>> /\ rendered[1].kind = "toc"
               /\ \E l \in 1..Len(rendered[1].text) :
                     rendered[1].text[l] =
                        TocLine("file", EffectiveSource(document[k]), <<>>)

\* The newline-separated lines of the content: its lines, and one more,
\* empty one when the content ends with a newline.
PiecesOf(content) ==
    IF content # <<>> /\ content[Len(content)].kind = "text"
    THEN Append(content, Partial("")) ELSE content

\* C24: format_with_line_numbers returns the empty string for empty
\* content; otherwise one output line per newline-separated line of the
\* content, in order, the i-th (from 0) with the number start_number + i,
\* content that ends with a newline giving one more numbered empty line.
C24_FormatWithLineNumbers ==
    fmt_pc = "returned" =>
        /\ fmt_content = <<>> => fmt_out = <<>>
        /\ fmt_content # <<>> =>
              /\ Len(fmt_out) = Len(PiecesOf(fmt_content))
              /\ \A i \in 1..Len(fmt_out) :
                    /\ fmt_out[i].num = fmt_start + i - 1
                    /\ fmt_out[i].line.text = PiecesOf(fmt_content)[i].text
                    /\ fmt_out[i].line.kind = "partial" <=> i = Len(fmt_out)

\* Every path the arguments of the call name, in the order they name them,
\* repeats included.
RECURSIVE NamedFrom(_)
NamedFrom(i) ==
    IF i > Len(path_args.args) THEN <<>>
    ELSE ExpandArg(path_args.args[i], path_args.recursive, path_args.include_hidden).paths
         \o NamedFrom(i + 1)

FirstSeen(named, p) == CHOOSE k \in 1..Len(named) : named[k] = p /\ \A j \in 1..(k - 1) : named[j] # p

\* C26: the list resolve_paths returns holds each file the arguments name
\* exactly once, however often and however spelled (relative, absolute,
\* directly, through a directory or a glob) it was named, in the order the
\* files were first seen, and every entry is an absolute path of a file.
C26_ResolvedOnceInFirstSeenOrder ==
    path_pc = "returned" =>
        LET named == NamedFrom(1)
            n == Len(resolved_paths)
        IN  /\ \A i, j \in 1..n : i # j => resolved_paths[i].segs # resolved_paths[j].segs
            /\ \A i \in 1..n : resolved_paths[i].abs /\ IsFile(resolved_paths[i].segs)
            /\ {resolved_paths[i] : i \in 1..n} = {named[k] : k \in 1..Len(named)}
            /\ \A i, j \in 1..n :
                  i < j => FirstSeen(named, resolved_paths[i]) < FirstSeen(named, resolved_paths[j])

\* f.txt named three ways (relative, "./", absolute) together with the
\* directory that holds it gives one entry for it.
C26_Witness ==
    /\ path_pc = "returned"
    /\ path_args.args = <<PathArg("path", Spelled(FALSE, <<".", "f.txt">>)),
                          PathArg("path", Spelled(TRUE, <<"w", "f.txt">>)),
                          PathArg("path", Spelled(FALSE, <<".">>))>>
    /\ path_args.recursive /\ ~path_args.include_hidden
    /\ resolved_paths = <<Spelled(TRUE, <<"w", "f.txt">>), Spelled(TRUE, <<"w", "sub", "g.txt">>)>>

\* C27 as stated: once build_document has returned, a step of a later stage
\* changes nothing of the Document but toc - the fragments and the theme
\* fields stay as they are - and toc changes only in a render that was asked
\* for a TOC.
C27_OnlyTocChangesAfterBuild ==
    [][(pc \in {"built", "themed"}) =>
          (/\ document' = document
           /\ theme' = theme
           /\ (toc' # toc => include_toc' /\ pc' = "rendered"))]_vars

\* C27, amended: the fragment list and every fragment's fields stay as they
\* are; toc changes only in a render that was asked for a TOC, once; the
\* theme fields change only when apply_theme_to_document is given a theme.
C27_FragmentsFrozenAfterBuild ==
    [][(pc \in {"built", "themed"}) =>
          (/\ document' = document
           /\ (theme' # theme =>
                  (/\ pc = "built" /\ pc' = "themed" /\ toc' = toc
                   /\ theme'.use_rich_formatting /\ theme'.theme_name # "None"))
           /\ (toc' # toc =>
                  (/\ include_toc' /\ pc' = "rendered" /\ toc = NoToc /\ toc'.set
                   /\ theme' = theme)))]_vars

\* A themed Document with a heading, rendered with a TOC: toc and the theme
\* fields are set, the fragments are there.
C27_Witness ==
    /\ pc = "rendered" /\ include_toc /\ toc.set
    /\ theme.use_rich_formatting
    /\ Len(document) = 2
    /\ document[1].content = <<Text("# A")>>

\* C28: throughout build_document processed_files is exactly the set of
\* paths of the bundles under expansion on the stack, one path per call; it
\* grows only by the path of the bundle whose expansion starts in that step
\* and shrinks only by the path of the bundle whose expansion ends; no plain
\* file is ever in it; and it is empty whenever no expansion is in progress,
\* after a descriptor that ended normally as after a raised error.
C28_ActiveSetIsRecursionStack ==
    /\ [](/\ processed_files = StackPaths
          /\ Cardinality(processed_files) = Len(stack)
          /\ \A p \in processed_files : Ext(p.name) \in bundle_extensions
          /\ (stack = <<>> \/ pc \in {"built", "raised", "rendered"}) => processed_files = {})
    /\ [][(processed_files' # processed_files) =>
             (\/ /\ Len(stack') = Len(stack) + 1
                 /\ exc = "none" /\ exc' = "none"
                 /\ stack'[Len(stack')].filepath \notin processed_files
                 /\ processed_files' = processed_files \cup {stack'[Len(stack')].filepath}
              \/ /\ stack # <<>>
                 /\ stack' = SubSeq(stack, 1, Len(stack) - 1)
                 /\ processed_files' = processed_files \ {Top.filepath})]_vars
    /\ [][(Len(stack') = Len(stack) + 1) => (processed_files' # processed_files)]_vars

\* b.ndoc, entered from a.ndoc, has been left by the CircularDependencyError
\* its directive raised; a.ndoc is the one path still active.
C28_Witness ==
    /\ pc = "building" /\ exc = "CircularDependencyError"
    /\ Len(stack) = 1
    /\ processed_files = {Path(BundleA, 0)}
    /\ \E k \in 1..Len(document) : document[k].filepath = Path(BundleB, 0)

\* The bundle files there are.
BundleFiles == {n \in DOMAIN fs : Ext(n) \in bundle_extensions}

\* C29: the nesting of bundle expansion is never deeper than the number of
\* distinct bundle files, however the directives spell the paths: no bundle
\* file is under expansion twice on one ancestor chain.
C29_DepthBoundedByBundleFiles ==
    Len(stack) <= Cardinality(BundleFiles)

\* A line process_bundle_directives takes for a directive.
IsDirectiveLine(line) == inline_match(line) \/ include_match(line)

\* Line r begins a maximal run of non-directive lines, and e is the last
\* line of that run within the first upto lines.
RunStart(lines, r) ==
    ~IsDirectiveLine(lines[r]) /\ (r = 1 \/ IsDirectiveLine(lines[r - 1]))
RunEnd(lines, r, upto) ==
    CHOOSE e \in r..upto :
        /\ \A j \in r..e : ~IsDirectiveLine(lines[j])
        /\ e = upto \/ IsDirectiveLine(lines[e + 1])

\* The literal-run fragments of the expansion at scan position pos.
LiteralRuns(pos) ==
    {k \in 1..Len(document) :
        /\ origin[k].via = "literal"
        /\ Len(origin[k].pos) = Len(pos) + 1
        /\ SubSeq(origin[k].pos, 1, Len(pos)) = pos}
RunOf(k) == origin[k].pos[Len(origin[k].pos)]

\* The literal text of the first upto lines of an expansion is in the
\* Document, run by run: every maximal run has exactly one fragment, which
\* holds the lines of the run, or is the run still being accumulated
\* (pending, in cur); there is no other literal-run fragment; the fragments
\* are in the order of the runs.
LiteralTextKept(filepath, lines, upto, pos, pending, cur) ==
    /\ \A r \in 1..upto :
          RunStart(lines, r) =>
             IF pending /\ RunEnd(lines, r, upto) = upto
             THEN /\ cur = SubSeq(lines, r, upto)
                  /\ \A k \in LiteralRuns(pos) : RunOf(k) # r
             ELSE /\ Cardinality({k \in LiteralRuns(pos) : RunOf(k) = r}) = 1
                  /\ \A k \in LiteralRuns(pos) :
                        RunOf(k) = r =>
                           /\ document[k].content = SubSeq(lines, r, RunEnd(lines, r, upto))
                           /\ document[k].filepath = filepath
                           /\ document[k].original_source = filepath
    /\ \A k \in LiteralRuns(pos) :
          /\ RunOf(k) \in 1..upto /\ RunStart(lines, RunOf(k))
          /\ document[k].content # <<>>
          /\ \A j \in 1..Len(document[k].content) : ~IsDirectiveLine(document[k].content[j])
    /\ \A k, l \in LiteralRuns(pos) : k < l => RunOf(k) < RunOf(l)
    /\ (pending /\ (upto = 0 \/ IsDirectiveLine(lines[upto]))) => cur = <<>>

\* C30: the literal text of a bundle is kept as it is: for every bundle
\* under expansion (up to the line reached) and every top-level bundle whose
\* expansion has ended, the literal-run fragments are, in order, the maximal
\* runs of non-directive lines, one fragment per run, none of them empty,
\* none holding a directive line.
C30_LiteralTextKept ==
    /\ Len(origin) = Len(document)
    /\ \A d \in 1..Len(stack) :
          LiteralTextKept(stack[d].filepath, stack[d].lines, stack[d].i - 1, stack[d].pos,
                          TRUE, stack[d].cur)
    /\ \A a \in 1..Len(file_contents) :
          (/\ exc = "none" /\ a < argi /\ file_contents[a].is_bundle
           /\ (stack = <<>> \/ stack[1].pos # <<a>>))
          => LiteralTextKept(file_contents[a].filepath, file_contents[a].content,
                             Len(file_contents[a].content), <<a>>, FALSE, <<>>)

\* A returned Document of a bundle with a missing target between two runs:
\* the two runs are two literal fragments, in order.
C30_Witness ==
    /\ pc = "built"
    /\ file_contents[1].is_bundle
    /\ Cardinality(LiteralRuns(<<1>>)) = 2
    /\ \E k \in LiteralRuns(<<1>>) : RunOf(k) = 3

====
